---- MODULE Spec2Model ----
(***************************************************************************)
(* Model of the equivalence memory (app/services/matching_memory.py), the  *)
(* cached matching service (app/services/matching_service.py) and the      *)
(* multi-supplier allocation optimizer (app/services/optimizer.py).        *)
(***************************************************************************)
EXTENDS Integers, Sequences, FiniteSets, TLC

\* ------------------------------------------------------------------------
\* Universe of the model
\* ------------------------------------------------------------------------

\* CIP13 product codes
Codes == {"c1", "c2", "c3"}

\* Python None for string- or record-valued fields
None == "none"

\* get_groupe_for_cip returns None when the code has no record. Group ids
\* are positive, and the callers only test the result for truthiness, so the
\* absent group is modelled by the one falsy integer.
NoGroup == 0

\* largest group id a caller passes explicitly to add_to_memory
MaxGroupArg == 2

\* free-text sale designations
Designations == {"d1", "d2"}

\* score_threshold default of batch_match_products
ScoreThreshold == 70

\* rapidfuzz token_set_ratio between a designation and the denomination of a
\* reference entry, as a fixed table: d1 is close to c1 and c3 (a tie) and
\* passable for c2, d2 is close to nothing.
ScoreTable ==
    [d \in Designations |->
        IF d = "d1" THEN [c \in Codes |-> IF c = "c2" THEN 72 ELSE 90]
                    ELSE [c \in Codes |-> 40]]

\* a row of bdpm_equivalences: groupe_generique_id (0 for NULL) and whether
\* pfht is set
BdpmRow(cip, gen, pfht) == [cip13 |-> cip, gen |-> gen, pfht |-> pfht]

\* The reference tables the model starts from, each the sequence of its rows
\* in the order a query without ORDER BY returns them (the table is not
\* written by any call of the model, so the order does not change).
BdpmTables ==
    { <<BdpmRow("c1", 1, TRUE), BdpmRow("c2", 1, FALSE), BdpmRow("c3", 0, TRUE)>>,
      <<BdpmRow("c3", 2, TRUE), BdpmRow("c2", 1, TRUE), BdpmRow("c1", 1, TRUE)>>,
      <<BdpmRow("c2", 2, TRUE), BdpmRow("c1", 1, TRUE)>>,
      <<BdpmRow("c3", 0, FALSE)>> }

VARIABLES
    mem,      \* matching_memory table: code -> [g, validated, matched]
    bdpm,     \* bdpm_equivalences table: the sequence of its rows
    svc,      \* TRUE once a MatchingService has been constructed
    cache,    \* MatchingService._cache: code -> [matched]
    hist,     \* the register_match calls made since the last other call
              \* (at most the two latest), each [a, b, ret]
    rm,       \* the register_match calls in progress, statement by statement:
              \* session -> [pc, a, b, ga, gb, gid, pre]
    req,      \* the optimization request and the stored data it reads
    res,      \* the OptimizationResult returned for req
    combo,    \* the call of find_best_combo_greedy: its data, its loop and its result
    mt,       \* the matching of one sale line: the data read, the call and its result
    api       \* the API request in progress: the stored data it reads and its response

vars == <<mem, bdpm, svc, cache, hist, rm, req, res, combo, mt, api>>

optVars == <<req, res, combo, mt, api>>

\* ------------------------------------------------------------------------
\* matching_memory.py
\* ------------------------------------------------------------------------

MaxOf(S) == CHOOSE x \in S : \A y \in S : y <= x

GroupIds(m) == {m[c].g : c \in DOMAIN m}

\* SELECT MAX(groupe_equivalence_id), then (max_id or 0) + 1
GetNextGroupeId(m) == MaxOf(GroupIds(m) \cup {0}) + 1

GetGroupeForCip(m, cip) == IF cip \in DOMAIN m THEN m[cip].g ELSE NoGroup

GetAllCipsInGroupe(m, g) == {c \in DOMAIN m : m[c].g = g}

\* a merge that rewrites nothing
MergeGroupesNoRewrite(m, keep, merge) == m

\* a merge with the UPDATE's filter and value swapped
MergeGroupesSwapped(m, keep, merge) ==
    [c \in DOMAIN m |-> IF m[c].g = keep THEN [m[c] EXCEPT !.g = merge] ELSE m[c]]

\* UPDATE matching_memory SET groupe_equivalence_id = keep
\*   WHERE groupe_equivalence_id = merge; COMMIT
MergeGroupes(m, keep, merge) ==
    [c \in DOMAIN m |-> IF m[c].g = merge THEN [m[c] EXCEPT !.g = keep] ELSE m[c]]

NewRecord(g, matched) == [g |-> g, validated |-> FALSE, matched |-> matched]

Insert(m, cip, rec) == [c \in DOMAIN m \cup {cip} |-> IF c = cip THEN rec ELSE m[c]]

\* add_to_memory; gid = NoGroup stands for groupe_equivalence_id=None
AddToMemory(m, cip, gid) ==
    IF cip \in DOMAIN m
    THEN m
    ELSE Insert(m, cip, NewRecord(IF gid = NoGroup THEN GetNextGroupeId(m) ELSE gid, None))

\* register_match: the memory after the call, the returned group id and the
\* returned is_new flag
RegisterMatchResult(m, a, b) ==
    LET ga == GetGroupeForCip(m, a)
        gb == GetGroupeForCip(m, b)
    IN  IF ga # NoGroup /\ gb # NoGroup
        THEN [mem |-> IF ga # gb THEN MergeGroupes(m, ga, gb) ELSE m,
              ret |-> ga, is_new |-> FALSE]
        ELSE IF ga # NoGroup
        THEN [mem |-> AddToMemory(m, b, ga), ret |-> ga, is_new |-> FALSE]
        ELSE IF gb # NoGroup
        THEN [mem |-> AddToMemory(m, a, gb), ret |-> gb, is_new |-> FALSE]
        ELSE LET gid == GetNextGroupeId(m)
             IN  [mem |-> AddToMemory(AddToMemory(m, a, gid), b, gid),
                  ret |-> gid, is_new |-> TRUE]

ValidateGroupe(m, g) ==
    [c \in DOMAIN m |-> IF m[c].g = g THEN [m[c] EXCEPT !.validated = TRUE] ELSE m[c]]

ValidateCip(m, cip) ==
    IF cip \in DOMAIN m THEN [m EXCEPT ![cip].validated = TRUE] ELSE m


\* the orders in which a query without ORDER BY may return the rows of S
RowOrders(S) == {s \in [1..Cardinality(S) -> S] : {s[i] : i \in DOMAIN s} = S}

\* the generic-group ids of the reference table (groupe_generique_id IS NOT NULL)
GenIds(bd) == {bd[i].gen : i \in DOMAIN bd} \ {0}

\* one iteration of populate_from_bdpm's loop, for the generic group gen
PopulateGroupe(m, bd, gen) ==
    LET cips == SelectSeq(bd, LAMBDA row : row.gen = gen)
        found == SelectSeq(cips, LAMBDA row : GetGroupeForCip(m, row.cip13) # NoGroup)
        existing == IF found # <<>> THEN GetGroupeForCip(m, found[1].cip13)
                                    ELSE GetNextGroupeId(m)
        new == {cips[i].cip13 : i \in DOMAIN cips} \ DOMAIN m
    IN  [c \in DOMAIN m \cup new |-> IF c \in new THEN NewRecord(existing, None) ELSE m[c]]

RECURSIVE PopulateFromBdpm(_, _, _)
\* populate_from_bdpm, the generic groups taken in the order gorder
PopulateFromBdpm(m, bd, gorder) ==
    IF gorder = <<>>
    THEN m
    ELSE PopulateFromBdpm(PopulateGroupe(m, bd, Head(gorder)), bd, Tail(gorder))

\* ------------------------------------------------------------------------
\* batch_matching.py and matching_service.py
\* ------------------------------------------------------------------------

\* the codes of the reference rows with a price (pfht IS NOT NULL), in the
\* order the query returns them
RefList(bd) ==
    LET rows == SelectSeq(bd, LAMBDA row : row.pfht)
    IN  [i \in 1..Len(rows) |-> rows[i].cip13]

\* an argmax that always answers the first reference entry
ArgFirst(row, refs) == 1

\* np.argmax: the first index holding the maximum of the row
ArgMax(row, refs) ==
    CHOOSE i \in 1..Len(refs) :
        /\ \A j \in 1..Len(refs) : row[refs[j]] <= row[refs[i]]
        /\ \A j \in 1..(i - 1) : row[refs[j]] < row[refs[i]]

BatchMatchProducts(ventes, refs, threshold) ==
    IF ventes = <<>> \/ refs = <<>>
    THEN <<>>
    ELSE [i \in 1..Len(ventes) |->
            LET row == ScoreTable[ventes[i].designation]
                best == ArgMax(row, refs)
            IN  IF row[refs[best]] >= threshold
                THEN [source_cip13 |-> ventes[i].cip13, matched_cip13 |-> refs[best],
                      match_score |-> row[refs[best]], match_type |-> "fuzzy"]
                ELSE [source_cip13 |-> ventes[i].cip13, matched_cip13 |-> None,
                      match_score |-> row[refs[best]], match_type |-> "no_match"]]

\* MatchingService._load_cache
LoadCache(m) ==
    [c \in {x \in DOMAIN m : m[x].validated} |-> [matched_cip13 |-> m[c].matched]]

\* MatchingService._compute_single_match
ComputeSingleMatch(bd, designation) ==
    LET refs == RefList(bd)
        results == BatchMatchProducts(<<[cip13 |-> None, designation |-> designation]>>,
                                      refs, ScoreThreshold)
    IN  IF refs = <<>>
        THEN [source_cip13 |-> None, matched_cip13 |-> None, match_score |-> 0,
              match_type |-> "no_bdpm"]
        ELSE results[1]

\* a store that gives the record a fresh group whether or not it exists
StoreMatchAlwaysNew(m, cip, match) ==
    Insert(m, cip, NewRecord(GetNextGroupeId(m), match.matched_cip13))

\* MatchingService._store_match
StoreMatch(m, cip, match) ==
    IF cip \in DOMAIN m
    THEN [m EXCEPT ![cip].matched = match.matched_cip13, ![cip].validated = FALSE]
    ELSE Insert(m, cip, NewRecord(GetNextGroupeId(m), match.matched_cip13))

RECURSIVE StoreMatches(_, _)
\* the loop of batch_process_ventes over new_matches
StoreMatches(m, matches) ==
    IF matches = <<>>
    THEN m
    ELSE LET match == Head(matches)
         IN  StoreMatches(IF match.source_cip13 # None
                          THEN StoreMatch(m, match.source_cip13, match)
                          ELSE m,
                          Tail(matches))

\* the sales of the batch that are not served from the cache
ToCompute(ventes, ch) ==
    SelectSeq(ventes, LAMBDA v : ~(v.code_cip_achete # None /\ v.code_cip_achete \in DOMAIN ch))

\* MatchingService.batch_process_ventes: the memory after the call
BatchProcessVentes(m, bd, ch, ventes) ==
    LET todo == ToCompute(ventes, ch)
        refs == RefList(bd)
        vente_list == [i \in 1..Len(todo) |->
                          [cip13 |-> todo[i].code_cip_achete,
                           designation |-> todo[i].designation]]
    IN  IF todo # <<>> /\ refs # <<>>
        THEN StoreMatches(m, BatchMatchProducts(vente_list, refs, ScoreThreshold))
        ELSE m


\* ------------------------------------------------------------------------
\* The calls, made one after the other on one database session
\* ------------------------------------------------------------------------

Init ==
    /\ mem = << >>
    /\ bdpm \in BdpmTables
    /\ svc = FALSE
    /\ cache = << >>
    /\ hist = << >>
    /\ rm = << >>
    /\ req = None
    /\ res = None
    /\ combo = None
    /\ mt = None
    /\ api = None

\* the latest two register_match calls
Remember(h, call) == IF h = << >> THEN <<call>> ELSE <<h[Len(h)], call>>

AddToMemoryCall ==
    \E cip \in Codes, gid \in 0..MaxGroupArg :
        /\ mem' = AddToMemory(mem, cip, gid)
        /\ hist' = << >>
        /\ UNCHANGED <<bdpm, svc, cache, rm, optVars>>

RegisterMatchCall ==
    \E a, b \in Codes :
        LET r == RegisterMatchResult(mem, a, b)
        IN  /\ mem' = r.mem
            /\ hist' = Remember(hist, [a |-> a, b |-> b, ret |-> r.ret])
            /\ UNCHANGED <<bdpm, svc, cache, rm, optVars>>

MergeGroupesCall ==
    \E keep, merge \in GroupIds(mem) :
        /\ mem' = MergeGroupes(mem, keep, merge)
        /\ hist' = << >>
        /\ UNCHANGED <<bdpm, svc, cache, rm, optVars>>

ValidateGroupeCall ==
    \E g \in GroupIds(mem) :
        /\ mem' = ValidateGroupe(mem, g)
        /\ hist' = << >>
        /\ UNCHANGED <<bdpm, svc, cache, rm, optVars>>

ValidateCipCall ==
    \E cip \in Codes :
        /\ mem' = ValidateCip(mem, cip)
        /\ hist' = << >>
        /\ UNCHANGED <<bdpm, svc, cache, rm, optVars>>

PopulateFromBdpmCall ==
    \E gorder \in RowOrders(GenIds(bdpm)) :
        /\ mem' = PopulateFromBdpm(mem, bdpm, gorder)
        /\ hist' = << >>
        /\ UNCHANGED <<bdpm, svc, cache, rm, optVars>>

\* MatchingService(db): __init__ loads the cache
NewMatchingService ==
    /\ svc' = TRUE
    /\ cache' = LoadCache(mem)
    /\ hist' = << >>
    /\ UNCHANGED <<mem, bdpm, rm, optVars>>

GetOrComputeMatch ==
    \E cip \in Codes, designation \in Designations :
        /\ svc
        /\ IF cip \in DOMAIN cache
           THEN mem' = mem
           ELSE LET match == ComputeSingleMatch(bdpm, designation)
                IN  mem' = IF match.matched_cip13 # None
                           THEN StoreMatch(mem, cip, match)
                           ELSE mem
        /\ hist' = << >>
        /\ UNCHANGED <<bdpm, svc, cache, rm, optVars>>

\* the batches of sales handed to batch_process_ventes
MaxBatch == 2

Ventes ==
    [code_cip_achete : Codes \cup {None}, designation : Designations]

Batches == UNION {[1..n -> Ventes] : n \in 0..MaxBatch}

BatchProcessVentesCall ==
    \E ventes \in Batches :
        /\ svc
        /\ mem' = BatchProcessVentes(mem, bdpm, cache, ventes)
        /\ hist' = << >>
        /\ UNCHANGED <<bdpm, svc, cache, rm, optVars>>

InvalidateCache ==
    \E cip \in Codes \cup {None} :
        /\ svc
        /\ cache' = IF cip # None
                    THEN [c \in DOMAIN cache \ {cip} |-> cache[c]]
                    ELSE LoadCache(mem)
        /\ hist' = << >>
        /\ UNCHANGED <<mem, bdpm, svc, rm, optVars>>

\* register_match among the calls of the matching service, where the calls
\* are not remembered
RegisterMatchSvc ==
    \E a, b \in Codes :
        /\ mem' = RegisterMatchResult(mem, a, b).mem
        /\ hist' = << >>
        /\ UNCHANGED <<bdpm, svc, cache, rm, optVars>>

\* the calls of matching_memory.py
Next ==
    \/ AddToMemoryCall
    \/ RegisterMatchCall
    \/ MergeGroupesCall
    \/ ValidateGroupeCall
    \/ ValidateCipCall
    \/ PopulateFromBdpmCall

Spec == Init /\ [][Next]_vars

\* the calls of matching_memory.py together with those of the MatchingService
NextSvc ==
    \/ AddToMemoryCall
    \/ RegisterMatchSvc
    \/ MergeGroupesCall
    \/ ValidateGroupeCall
    \/ ValidateCipCall
    \/ PopulateFromBdpmCall
    \/ NewMatchingService
    \/ GetOrComputeMatch
    \/ BatchProcessVentesCall
    \/ InvalidateCache

SpecSvc == Init /\ [][NextSvc]_vars


\* ------------------------------------------------------------------------
\* register_match statement by statement, with the process stopping between
\* two statements
\* ------------------------------------------------------------------------

Sessions == {"s1"}

IdleCall ==
    [pc |-> "idle", a |-> None, b |-> None, ga |-> NoGroup, gb |-> NoGroup,
     gid |-> NoGroup, pre |-> << >>]

InitCrash ==
    /\ mem = << >>
    /\ bdpm \in BdpmTables
    /\ svc = FALSE
    /\ cache = << >>
    /\ hist = << >>
    /\ rm = [s \in Sessions |-> IdleCall]
    /\ req = None
    /\ res = None
    /\ combo = None
    /\ mt = None
    /\ api = None

StepFrame == UNCHANGED <<bdpm, svc, cache, hist, optVars>>

\* the call is entered; pre keeps the committed memory it started from
RmCall(s) ==
    \E a, b \in Codes :
        /\ rm[s].pc \in {"idle", "done", "interrupted"}
        /\ rm' = [rm EXCEPT ![s] = [IdleCall EXCEPT !.pc = "read_a", !.a = a, !.b = b,
                                                     !.pre = mem]]
        /\ UNCHANGED mem
        /\ StepFrame

\* groupe_a = get_groupe_for_cip(db, cip_a)
RmReadA(s) ==
    /\ rm[s].pc = "read_a"
    /\ rm' = [rm EXCEPT ![s].ga = GetGroupeForCip(mem, rm[s].a), ![s].pc = "read_b"]
    /\ UNCHANGED mem
    /\ StepFrame

\* groupe_b = get_groupe_for_cip(db, cip_b)
RmReadB(s) ==
    /\ rm[s].pc = "read_b"
    /\ rm' = [rm EXCEPT ![s].gb = GetGroupeForCip(mem, rm[s].b), ![s].pc = "branch"]
    /\ UNCHANGED mem
    /\ StepFrame

\* both grouped: merge_groupes (one UPDATE and its commit) when they differ
RmMerge(s) ==
    /\ rm[s].pc = "branch"
    /\ rm[s].ga # NoGroup /\ rm[s].gb # NoGroup
    /\ mem' = IF rm[s].ga # rm[s].gb THEN MergeGroupes(mem, rm[s].ga, rm[s].gb) ELSE mem
    /\ rm' = [rm EXCEPT ![s].gid = rm[s].ga, ![s].pc = "done"]
    /\ StepFrame

\* only cip_a grouped: add_to_memory(cip_b, groupe_a) (one INSERT and its commit)
RmAddB(s) ==
    /\ rm[s].pc = "branch"
    /\ rm[s].ga # NoGroup /\ rm[s].gb = NoGroup
    /\ mem' = AddToMemory(mem, rm[s].b, rm[s].ga)
    /\ rm' = [rm EXCEPT ![s].gid = rm[s].ga, ![s].pc = "done"]
    /\ StepFrame

\* only cip_b grouped: add_to_memory(cip_a, groupe_b)
RmAddA(s) ==
    /\ rm[s].pc = "branch"
    /\ rm[s].ga = NoGroup /\ rm[s].gb # NoGroup
    /\ mem' = AddToMemory(mem, rm[s].a, rm[s].gb)
    /\ rm' = [rm EXCEPT ![s].gid = rm[s].gb, ![s].pc = "done"]
    /\ StepFrame

\* neither grouped: groupe_id = get_next_groupe_id(db)
RmNextId(s) ==
    /\ rm[s].pc = "branch"
    /\ rm[s].ga = NoGroup /\ rm[s].gb = NoGroup
    /\ rm' = [rm EXCEPT ![s].gid = GetNextGroupeId(mem), ![s].pc = "add_first"]
    /\ UNCHANGED mem
    /\ StepFrame

\* the first add_to_memory of the new group, with its own commit
RmAddFirst(s) ==
    /\ rm[s].pc = "add_first"
    /\ mem' = AddToMemory(mem, rm[s].a, rm[s].gid)
    /\ rm' = [rm EXCEPT ![s].pc = "add_second"]
    /\ StepFrame

\* the second add_to_memory of the new group, with its own commit
RmAddSecond(s) ==
    /\ rm[s].pc = "add_second"
    /\ mem' = AddToMemory(mem, rm[s].b, rm[s].gid)
    /\ rm' = [rm EXCEPT ![s].pc = "done"]
    /\ StepFrame

\* the process is stopped inside the call: what is committed stays
Interrupt(s) ==
    /\ rm[s].pc \notin {"idle", "done", "interrupted"}
    /\ rm' = [rm EXCEPT ![s].pc = "interrupted"]
    /\ UNCHANGED mem
    /\ StepFrame

NextCrash ==
    \E s \in Sessions :
        \/ RmCall(s)
        \/ RmReadA(s)
        \/ RmReadB(s)
        \/ RmMerge(s)
        \/ RmAddB(s)
        \/ RmAddA(s)
        \/ RmNextId(s)
        \/ RmAddFirst(s)
        \/ RmAddSecond(s)
        \/ Interrupt(s)

SpecCrash == InitCrash /\ [][NextCrash]_vars

\* a call that runs to its end does what register_match does in one piece
StepsAgree ==
    \A s \in DOMAIN rm :
        rm[s].pc = "done" =>
            LET r == RegisterMatchResult(rm[s].pre, rm[s].a, rm[s].b)
            IN  mem = r.mem /\ rm[s].gid = r.ret


\* ------------------------------------------------------------------------
\* optimizer.py
\* ------------------------------------------------------------------------

\* Python None for a numeric field
Null == -1

\* the suppliers of the request, in the order of its objectives (labo_ids);
\* run_optimization rejects a request that names a supplier twice
LaboIds == <<1, 2>>

Labos == {LaboIds[i] : i \in DOMAIN LaboIds}

\* number of sale lines of a non-empty import
NumVentes == 2

VenteIds == 1..NumVentes

\* quantite_annuelle of a sale line (0 also stands for NULL)
Quantities == {0, 1, 2}

\* catalogue_produits: id -> supplier, unit price (0 also stands for NULL),
\* line discount in percent
Catalogue ==
    <<[labo_id |-> 1, prix_ht |-> 10, remise_pct |-> 5],
      [labo_id |-> 1, prix_ht |-> 20, remise_pct |-> 30],
      [labo_id |-> 2, prix_ht |-> 10, remise_pct |-> 0],
      [labo_id |-> 2, prix_ht |-> 30, remise_pct |-> 10],
      [labo_id |-> 2, prix_ht |-> 0, remise_pct |-> 10]>>

ProduitsOf(l) == {p \in DOMAIN Catalogue : Catalogue[p].labo_id = l}

\* laboratoires.remise_negociee, in percent
RemiseNegociee == <<10, 20, 15>>

\* mes_ventes.prix_bdpm (0 also stands for NULL)
PrixBdpm == [v \in VenteIds |-> IF v = 1 THEN 10 ELSE 0]

LaboObjective(l, pct, montant, ex) ==
    [labo_id |-> l, objectif_pct |-> pct, objectif_montant |-> montant, exclusions |-> ex]

\* the objectives a request states for one supplier: none, a percentage of
\* the potential, a fixed amount, both, with or without excluded products
ObjectiveChoices(l) ==
    IF l = 1
    THEN { LaboObjective(1, Null, Null, {}), LaboObjective(1, 50, Null, {}),
           LaboObjective(1, 100, Null, {2}), LaboObjective(1, Null, 30, {}),
           LaboObjective(1, 100, 30, {}), LaboObjective(1, Null, Null, {2}) }
    ELSE { LaboObjective(l, Null, Null, {}), LaboObjective(l, 100, Null, {}),
           LaboObjective(l, Null, 30, {}) }

\* the stored rules of regles_remontee joined with regles_remontee_produits:
\* none, or an exclusion (remontee_pct = 0) and a partial rule
RegleChoices ==
    { {},
      {[laboratoire_id |-> 2, produit_id |-> 4, remontee_pct |-> 0],
       [laboratoire_id |-> 1, produit_id |-> 1, remontee_pct |-> 50]} }

Max2(x, y) == IF x >= y THEN x ELSE y

RECURSIVE SumSeq(_)
SumSeq(q) == IF q = << >> THEN 0 ELSE Head(q) + SumSeq(Tail(q))

\* LaboObjective.get_objectif_minimum, in hundredths of the money unit
GetObjectifMinimum(obj, potentiel_ht) ==
    IF obj.objectif_montant # Null
    THEN obj.objectif_montant * 100
    ELSE IF obj.objectif_pct # Null /\ potentiel_ht > 0
    THEN potentiel_ht * obj.objectif_pct
    ELSE 0

ObjectiveOf(r, l) == r.objectives[CHOOSE i \in DOMAIN r.objectives : r.objectives[i].labo_id = l]

\* get_exclusions_for_labos, then the exclusions of the objectives added
Exclusions(r) ==
    [l \in Labos |->
        {x.produit_id : x \in {y \in r.regles : y.laboratoire_id = l /\ y.remontee_pct = 0}}
        \cup ObjectiveOf(r, l).exclusions]

\* the (sale line, supplier) pairs that pass the filters shared by
\* calculate_potentiels and the loop that creates the variables x[v, l]
Eligible(r, v, l) ==
    /\ v \in DOMAIN r.ventes
    /\ r.ventes[v] > 0
    /\ r.matching[v][l] # 0
    /\ r.matching[v][l] \notin Exclusions(r)[l]

\* the keys of x in the order they are inserted
XKeys(r) ==
    LET all == [i \in 1..(NumVentes * Len(LaboIds)) |->
                    <<((i - 1) \div Len(LaboIds)) + 1, LaboIds[((i - 1) % Len(LaboIds)) + 1]>>]
    IN  SelectSeq(all, LAMBDA k : Eligible(r, k[1], k[2]))

\* montant = prix * quantite
Montant(r, k) == Catalogue[r.matching[k[1]][k[2]]].prix_ht * r.ventes[k[1]]

\* gain_remise = montant * max(remise_ligne, remise_nego) / 100, in hundredths
GainRemise(r, k) ==
    Montant(r, k) * Max2(Catalogue[r.matching[k[1]][k[2]]].remise_pct, RemiseNegociee[k[2]])

\* the keys among ks that value selects
Selected(ks, value) == SelectSeq(ks, LAMBDA k : value[k] = 1)

OfLabo(ks, l) == SelectSeq(ks, LAMBDA k : k[2] = l)

OfVente(ks, v) == SelectSeq(ks, LAMBDA k : k[1] = v)

MontantSum(r, ks) == SumSeq([i \in 1..Len(ks) |-> Montant(r, ks[i])])

GainSum(r, ks) == SumSeq([i \in 1..Len(ks) |-> GainRemise(r, ks[i])])

\* calculate_potentiels
CalculatePotentiels(r) == [l \in Labos |-> MontantSum(r, OfLabo(XKeys(r), l))]

KeySet(r) == {XKeys(r)[i] : i \in DOMAIN XKeys(r)}

\* the values the solver can give the variables: 0 or 1 each
Values(r) == [KeySet(r) -> {0, 1}]

\* the minimum of every supplier, as the constraints and the result use it
Minimums(r) ==
    LET potentiels == CalculatePotentiels(r)
    IN  [l \in Labos |-> GetObjectifMinimum(ObjectiveOf(r, l), potentiels[l])]

\* constraints that have lost the one on the sale lines
SatisfiesObjectivesOnly(r, ks, mins, value) ==
    \A l \in Labos :
        mins[l] > 0 => MontantSum(r, OfLabo(Selected(ks, value), l)) * 100 >= mins[l]

\* constraints that have lost the objectives of the suppliers
SatisfiesLinesOnly(r, ks, mins, value) ==
    \A v \in VenteIds : Len(OfVente(Selected(ks, value), v)) <= 1

\* the constraints of the program over the variables ks: at most one
\* supplier per sale line, and for every supplier whose minimum is positive
\* a revenue that reaches it
Satisfies(r, ks, mins, value) ==
    /\ \A v \in VenteIds : Len(OfVente(Selected(ks, value), v)) <= 1
    /\ \A l \in Labos :
          mins[l] > 0 => MontantSum(r, OfLabo(Selected(ks, value), l)) * 100 >= mins[l]

\* the values of the variables that satisfy the constraints
Feasible(r) ==
    LET ks == XKeys(r)
        mins == Minimums(r)
    IN  {value \in Values(r) : Satisfies(r, ks, mins, value)}

\* an objective that counts the revenue instead of the rebate
ObjectiveChiffre(r, value) == MontantSum(r, Selected(XKeys(r), value))

\* the objective of the program: the sum of gain_remise over the selected keys
Objective(r, value) == GainSum(r, Selected(XKeys(r), value))

\* what solver.Solve() can answer, by the contract of the library: OPTIMAL
\* with a best feasible value, FEASIBLE with a feasible value when the time
\* limit stopped the search, INFEASIBLE when no value is feasible,
\* NOT_SOLVED when the time limit stopped the search before any value was
\* found, and the error statuses
Solutions(r) ==
    LET feasible == Feasible(r)
        best == {value \in feasible :
                    \A other \in feasible : Objective(r, other) <= Objective(r, value)}
    IN  { [status |-> "OPTIMAL", value |-> value, timed_out |-> FALSE] : value \in best }
        \cup { [status |-> "FEASIBLE", value |-> value, timed_out |-> TRUE] : value \in feasible }

NoSolutions(r) ==
    LET feasible == Feasible(r)
    IN  { [status |-> st, value |-> << >>, timed_out |-> FALSE] :
            st \in (IF feasible = {} THEN {"INFEASIBLE"} ELSE {})
                   \cup {"UNBOUNDED", "ABNORMAL", "MODEL_INVALID"} }
        \cup { [status |-> "NOT_SOLVED", value |-> << >>, timed_out |-> TRUE] }

\* a table of names that has lost the entry of NOT_SOLVED
StatusNameShort(status) ==
    IF status \in {"OPTIMAL", "FEASIBLE", "INFEASIBLE", "UNBOUNDED"}
    THEN status
    ELSE "UNKNOWN"

\* status_names.get(status, "UNKNOWN")
StatusName(status) ==
    IF status \in {"OPTIMAL", "FEASIBLE", "INFEASIBLE", "UNBOUNDED", "NOT_SOLVED"}
    THEN status
    ELSE "UNKNOWN"

\* the solver was not run
NotRun == [status |-> "none", value |-> << >>, timed_out |-> FALSE]

\* a failure that keeps the suppliers, without lines, in its repartition
FailureWithLabos(status_name, sol) ==
    [success |-> FALSE, status |-> status_name,
     repartition |-> [l \in Labos |-> [labo_id |-> l, ventes |-> << >>, chiffre_ht |-> 0]],
     chiffre_total_ht |-> 0, remise_totale |-> 0, couverture_pct |-> 0,
     solver |-> sol.status, timed_out |-> sol.timed_out]

\* the OptimizationResult of the returns with success=False. solver and
\* timed_out are not fields of the program's result: they record what the
\* solver answered and whether the time limit ended the solve.
Failure(status_name, sol) ==
    [success |-> FALSE, status |-> status_name, repartition |-> << >>,
     chiffre_total_ht |-> 0, remise_totale |-> 0, couverture_pct |-> 0,
     solver |-> sol.status, timed_out |-> sol.timed_out]

\* the keys the extraction loop turns into entries of repartition[l]["ventes"]
Extract(r, ks, value, l) == OfLabo(SelectSeq(ks, LAMBDA k : value[k] = 1), l)

\* the extraction of the result after a solve that ended OPTIMAL or FEASIBLE
Success(r, sol) ==
    LET ks == XKeys(r)
        potentiels == CalculatePotentiels(r)
        mins == Minimums(r)
        rep == [l \in Labos |->
                  LET mine == Extract(r, ks, sol.value, l)
                      minimum == mins[l]
                  IN  [labo_id |-> l,
                       ventes |-> [i \in 1..Len(mine) |->
                                     [vente_id |-> mine[i][1],
                                      produit_id |-> r.matching[mine[i][1]][l],
                                      quantite |-> r.ventes[mine[i][1]],
                                      montant_ht |-> Montant(r, mine[i]),
                                      gain_remise |-> GainRemise(r, mine[i])]],
                       chiffre_ht |-> MontantSum(r, mine),
                       remise_totale |-> GainSum(r, mine),
                       nb_produits |-> Len(mine),
                       objectif_atteint |-> MontantSum(r, mine) * 100 >= minimum,
                       objectif_minimum |-> minimum,
                       potentiel_ht |-> potentiels[l]]]
        chiffre_total == SumSeq([i \in 1..Len(LaboIds) |-> rep[LaboIds[i]].chiffre_ht])
        chiffre_bdpm_total == SumSeq([v \in VenteIds |-> PrixBdpm[v] * r.ventes[v]])
    IN  [success |-> TRUE, status |-> StatusName(sol.status), repartition |-> rep,
         chiffre_total_ht |-> chiffre_total,
         remise_totale |-> SumSeq([i \in 1..Len(LaboIds) |-> rep[LaboIds[i]].remise_totale]),
         couverture_pct |-> IF chiffre_bdpm_total > 0
                            THEN (chiffre_total * 100) \div chiffre_bdpm_total
                            ELSE 0,
         solver |-> sol.status, timed_out |-> sol.timed_out]

\* no result yet
Pending == [status |-> "PENDING"]

\* The request and the stored data it reads: the sale lines of the import
\* (none, or NumVentes of them, each with its quantity), their matchings per
\* supplier (0 for no row or a NULL produit_id), the stored rules and the
\* objectives.
InitRequest ==
    \E q \in [VenteIds -> Quantities] \cup {<< >>},
      rg \in RegleChoices,
      o1 \in ObjectiveChoices(1), o2 \in ObjectiveChoices(2) :
      \E m \in [VenteIds -> [Labos -> 0..Len(Catalogue)]] :
          /\ \A v \in VenteIds, l \in Labos :
                /\ m[v][l] \in {0} \cup ProduitsOf(l)
                /\ q = << >> => m[v][l] = 0
          /\ req = [ventes |-> q, matching |-> m, regles |-> rg,
                    objectives |-> <<o1, o2>>]

InitOpt ==
    /\ mem = << >>
    /\ bdpm = << >>
    /\ svc = FALSE
    /\ cache = << >>
    /\ hist = << >>
    /\ rm = << >>
    /\ res = Pending
    /\ combo = None
    /\ mt = None
    /\ api = None
    /\ InitRequest

OptFrame == UNCHANGED <<mem, bdpm, svc, cache, hist, rm, req, combo, mt, api>>

\* if not ventes: return ... status="NO_DATA"
OptimizeNoData ==
    /\ res = Pending
    /\ req.ventes = << >>
    /\ res' = Failure("NO_DATA", NotRun)
    /\ OptFrame

\* neither SCIP nor CBC can be created
OptimizeSolverError ==
    /\ res = Pending
    /\ req.ventes # << >>
    /\ res' = Failure("SOLVER_ERROR", NotRun)
    /\ OptFrame

\* the solve ends without a solution
OptimizeNoSolution ==
    /\ res = Pending
    /\ req.ventes # << >>
    /\ \E sol \in NoSolutions(req) :
          res' = Failure(StatusName(sol.status), sol)
    /\ OptFrame

\* the solve ends OPTIMAL or FEASIBLE
OptimizeSolved ==
    /\ res = Pending
    /\ req.ventes # << >>
    /\ \E sol \in Solutions(req) : res' = Success(req, sol)
    /\ OptFrame

NextOpt ==
    \/ OptimizeNoData
    \/ OptimizeSolverError
    \/ OptimizeNoSolution
    \/ OptimizeSolved

SpecOpt == InitOpt /\ [][NextOpt]_vars

\* ------------------------------------------------------------------------
\* combo_optimizer.py
\* ------------------------------------------------------------------------

\* the suppliers of the laboratoires table
ComboLabos == {1, 2, 3}

\* number of sale lines of a non-empty import read by find_best_combo_greedy
NumComboVentes == 3

\* largest max_labos_combo of a call
MaxCombo == 3

\* mes_ventes.montant_annuel (0 also stands for NULL)
Montants == {0, 10}

\* the stored data find_best_combo_greedy reads and its arguments:
\* the sale lines of the import, their montant_annuel, the suppliers that
\* have a vente_matching row with a product for each line, the active
\* suppliers, labo_principal_id and max_labos_combo
ComboData(ventes, montant, match, actif, principal, max) ==
    [ventes |-> ventes, montant |-> montant, match |-> match, actif |-> actif,
     principal |-> principal, max |-> max]

RECURSIVE SumMontant(_, _)
\* sum(vente.montant_annuel or 0) over the sale lines of S
SumMontant(d, S) ==
    IF S = {}
    THEN 0
    ELSE LET v == CHOOSE x \in S : TRUE
         IN  d.montant[v] + SumMontant(d, S \ {v})

\* calculate_lab_coverage over the sale lines vente_ids
CalculateLabCoverage(d, labo_id, vente_ids) ==
    LET ventes_couvertes == {v \in vente_ids : labo_id \in d.match[v]}
    IN  [labo_id |-> labo_id,
         remise_negociee |-> RemiseNegociee[labo_id],
         ventes_couvertes |-> ventes_couvertes,
         montant_couvert |-> SumMontant(d, ventes_couvertes),
         nb_produits |-> Cardinality(ventes_couvertes)]

\* an estimate that looks at the rate alone
EstimateRemiseRate(labo_coverage) == labo_coverage.remise_negociee

\* estimate_remise: montant_couvert * remise_negociee / 100, in hundredths
EstimateRemise(labo_coverage) ==
    IF labo_coverage.montant_couvert <= 0
    THEN 0
    ELSE labo_coverage.montant_couvert * labo_coverage.remise_negociee

SelectedIds(selected_labos) == {selected_labos[i].labo_id : i \in DOMAIN selected_labos}

\* candidates whose coverage is computed over all the sale lines
CandidatesAllLines(d, selected_labos, ventes_couvertes) ==
    LET all == {CalculateLabCoverage(d, l, d.ventes) :
                    l \in (d.actif \ {d.principal}) \ SelectedIds(selected_labos)}
    IN  {c \in all : c.ventes_couvertes # {}}

\* the coverages the inner loop evaluates: the active suppliers other than
\* the principal one, not yet in the combination, that cover a remaining line
Candidates(d, selected_labos, ventes_couvertes) ==
    LET ventes_restantes == d.ventes \ ventes_couvertes
        all == {CalculateLabCoverage(d, l, ventes_restantes) :
                    l \in (d.actif \ {d.principal}) \ SelectedIds(selected_labos)}
    IN  {c \in all : c.ventes_couvertes # {}}

\* a choice that keeps best_labo only above a rebate of 1.00
BestLabosAbove(d, selected_labos, ventes_couvertes) ==
    LET cands == Candidates(d, selected_labos, ventes_couvertes)
    IN  {c \in cands :
            /\ EstimateRemise(c) > 100
            /\ \A o \in cands : EstimateRemise(o) <= EstimateRemise(c)}

\* the coverages best_labo can be after the inner loop when it is kept: the
\* first candidate of the largest remise_add, in the order the query of
\* other_labos returned them, if that remise_add is positive
BestLabos(d, selected_labos, ventes_couvertes) ==
    LET cands == Candidates(d, selected_labos, ventes_couvertes)
    IN  {c \in cands :
            /\ EstimateRemise(c) > 0
            /\ \A o \in cands : EstimateRemise(o) <= EstimateRemise(c)}

\* the ComboResult of the final statistics; couverture_totale_pct in tenths
ComboResult(d, selected_labos, ventes_couvertes, montant_remise_total) ==
    LET chiffre_total == SumMontant(d, d.ventes)
        chiffre_realise == SumMontant(d, ventes_couvertes)
    IN  [labos |-> selected_labos,
         couverture_totale_pct |->
            IF chiffre_total > 0
            THEN (2000 * chiffre_realise + chiffre_total) \div (2 * chiffre_total)
            ELSE 0,
         chiffre_total_realise |-> chiffre_realise,
         montant_remise_total |-> montant_remise_total,
         ventes_non_couvertes |-> d.ventes \ ventes_couvertes]

\* the ComboResult of an import without sale lines
EmptyCombo ==
    [labos |-> << >>, couverture_totale_pct |-> 0, chiffre_total_realise |-> 0,
     montant_remise_total |-> 0, ventes_non_couvertes |-> {}]

RECURSIVE GreedyLoop(_, _, _, _, _)
\* the results the loop 'for _ in range(max_labos_combo - 1)' can end with,
\* from its iteration number iter on
GreedyLoop(d, selected_labos, ventes_couvertes, montant_remise_total, iter) ==
    LET best == BestLabos(d, selected_labos, ventes_couvertes)
    IN  IF iter >= d.max - 1 \/ d.ventes \ ventes_couvertes = {} \/ best = {}
        THEN {ComboResult(d, selected_labos, ventes_couvertes, montant_remise_total)}
        ELSE UNION {GreedyLoop(d, Append(selected_labos, b),
                               ventes_couvertes \cup b.ventes_couvertes,
                               montant_remise_total + EstimateRemise(b), iter + 1) :
                        b \in best}

\* find_best_combo_greedy: the results it can return
FindBestComboGreedy(d) ==
    IF d.ventes = {}
    THEN {EmptyCombo}
    ELSE LET coverage_principal == CalculateLabCoverage(d, d.principal, d.ventes)
         IN  GreedyLoop(d, <<coverage_principal>>, coverage_principal.ventes_couvertes,
                        EstimateRemise(coverage_principal), 0)

\* the call before its first statement
ComboCall(d) ==
    [d |-> d, pc |-> "start", selected_labos |-> << >>, ventes_couvertes |-> {},
     montant_remise_total |-> 0, iter |-> 0, out |-> EmptyCombo]

InitCombo ==
    /\ mem = << >>
    /\ bdpm = << >>
    /\ svc = FALSE
    /\ cache = << >>
    /\ hist = << >>
    /\ rm = << >>
    /\ req = None
    /\ res = None
    /\ mt = None
    /\ api = None
    /\ \E ventes \in {{}, 1..NumComboVentes},
          actif \in SUBSET ComboLabos,
          principal \in ComboLabos,
          max \in 1..MaxCombo :
          \E montant \in [ventes -> Montants],
             match \in [ventes -> SUBSET ComboLabos] :
              combo = ComboCall(ComboData(ventes, montant, match, actif, principal, max))

ComboFrame == UNCHANGED <<mem, bdpm, svc, cache, hist, rm, req, res, mt, api>>

\* if not ventes: return ComboResult(labos=[], ...)
ComboNoData ==
    /\ combo.pc = "start"
    /\ combo.d.ventes = {}
    /\ combo' = [combo EXCEPT !.pc = "done", !.out = EmptyCombo]
    /\ ComboFrame

\* the coverage of the principal supplier opens the combination
ComboPrincipal ==
    /\ combo.pc = "start"
    /\ combo.d.ventes # {}
    /\ LET coverage_principal ==
               CalculateLabCoverage(combo.d, combo.d.principal, combo.d.ventes)
       IN  combo' = [combo EXCEPT !.pc = "loop",
                                  !.selected_labos = <<coverage_principal>>,
                                  !.ventes_couvertes = coverage_principal.ventes_couvertes,
                                  !.montant_remise_total = EstimateRemise(coverage_principal)]
    /\ ComboFrame

\* one iteration of the greedy loop that appends best_labo
ComboRound ==
    /\ combo.pc = "loop"
    /\ combo.iter < combo.d.max - 1
    /\ combo.d.ventes \ combo.ventes_couvertes # {}
    /\ \E best_labo \in BestLabos(combo.d, combo.selected_labos, combo.ventes_couvertes) :
          combo' = [combo EXCEPT
                      !.selected_labos = Append(@, best_labo),
                      !.ventes_couvertes = @ \cup best_labo.ventes_couvertes,
                      !.montant_remise_total = @ + EstimateRemise(best_labo),
                      !.iter = @ + 1]
    /\ ComboFrame

\* the loop ends: range exhausted, couverture 100%, or no supplier to add
ComboBreak ==
    /\ combo.pc = "loop"
    /\ \/ combo.iter >= combo.d.max - 1
       \/ combo.d.ventes \ combo.ventes_couvertes = {}
       \/ BestLabos(combo.d, combo.selected_labos, combo.ventes_couvertes) = {}
    /\ combo' = [combo EXCEPT !.pc = "return"]
    /\ ComboFrame

\* the final statistics and the return
ComboReturn ==
    /\ combo.pc = "return"
    /\ combo' = [combo EXCEPT
                   !.pc = "done",
                   !.out = ComboResult(combo.d, combo.selected_labos,
                                       combo.ventes_couvertes, combo.montant_remise_total)]
    /\ ComboFrame

NextCombo ==
    \/ ComboNoData
    \/ ComboPrincipal
    \/ ComboRound
    \/ ComboBreak
    \/ ComboReturn

SpecCombo == InitCombo /\ [][NextCombo]_vars

\* a call that runs to its end returns one of the results of the whole call
ComboStepsAgree ==
    combo.pc = "done" => combo.out \in FindBestComboGreedy(combo.d)

\* ------------------------------------------------------------------------
\* optimize_multi_labo without objectives and find_best_combo_greedy over
\* the same stored data
\* ------------------------------------------------------------------------

\* montant_annuel of the sale lines the two functions read (0 also stands
\* for NULL); it is stored by the import, not derived from a catalogue price
CompareMontants == {0, 40}

\* what find_best_combo_greedy reads of the data of the request r
ComboDataOf(r, montant, principal, max) ==
    ComboData(DOMAIN r.ventes, montant,
              [v \in DOMAIN r.ventes |-> {l \in Labos : r.matching[v][l] # 0}],
              Labos, principal, max)

InitCompare ==
    /\ mem = << >>
    /\ bdpm = << >>
    /\ svc = FALSE
    /\ cache = << >>
    /\ hist = << >>
    /\ rm = << >>
    /\ res = Pending
    /\ mt = None
    /\ api = None
    /\ \E q \in [VenteIds -> Quantities \ {2}] \cup {<< >>},
          ex \in {{}, {2}},
          principal \in Labos,
          max \in {1, Cardinality(Labos)} :
          \E m \in [VenteIds -> [Labos -> 0..Len(Catalogue)]],
             montant \in [DOMAIN q -> CompareMontants] :
              /\ \A v \in VenteIds, l \in Labos :
                    /\ m[v][l] \in {0} \cup ProduitsOf(l)
                    /\ q = << >> => m[v][l] = 0
              /\ req = [ventes |-> q, matching |-> m, regles |-> {},
                        objectives |-> <<LaboObjective(1, Null, Null, ex),
                                         LaboObjective(2, Null, Null, {})>>]
              /\ combo = ComboCall(ComboDataOf(req, montant, principal, max))

\* find_best_combo_greedy as one call
FindBestComboGreedyCall ==
    /\ combo.pc = "start"
    /\ \E out \in FindBestComboGreedy(combo.d) :
          combo' = [combo EXCEPT !.pc = "done", !.out = out]
    /\ UNCHANGED <<mem, bdpm, svc, cache, hist, rm, req, res, mt, api>>

NextCompare ==
    \/ NextOpt
    \/ FindBestComboGreedyCall

SpecCompare == InitCompare /\ [][NextCompare]_vars

\* ------------------------------------------------------------------------
\* intelligent_matching.py and api/matching.py: the matching cascade
\* ------------------------------------------------------------------------

\* One sale line is matched against the catalogues of two suppliers.  Scores
\* are in hundredths of a point (a score of 95.0 is 9500); the fuzzy scores of
\* rapidfuzz are whole points between 0 and 100.

\* the target suppliers; the order of their ids is the order of their names
MatchLabos == {1, 2}

\* laboratoire_id of the catalogue products 1, 2, 3, in the order of the queries
ProduitLabo == <<1, 1, 2>>

\* what rapidfuzz finds between the designation of the sale line and a
\* product: the WRatio of the molecules, calculate_component_score, and the
\* partial_ratio of the commercial names
FuzzyScores ==
    { [mol_score |-> 0, component_score |-> 0, name_score |-> 80],
      [mol_score |-> 80, component_score |-> 80, name_score |-> 80],
      [mol_score |-> 100, component_score |-> 100, name_score |-> 100] }

\* the rows a catalogue product can be; code_cip 1 is the code of the sale
\* line when it has one.  The packaging is known only for a product with a
\* group, and an inactive product is one that would match at every tier.
ProduitRows ==
    { r \in [actif : BOOLEAN, code_cip : {1, 2}, groupe_generique_id : {NoGroup, 1},
             conditionnement : {Null, 1, 2}, fuzzy : FuzzyScores] :
         /\ r.groupe_generique_id = NoGroup => r.conditionnement = Null
         /\ ~r.actif => /\ r.groupe_generique_id = 1
                        /\ r.conditionnement = 1
                        /\ r.fuzzy.mol_score = 100 }

\* the requests' min_score
MinScores == {7000, 9800}

\* a MatchResult, a best_match_by_lab entry or a stored VenteMatching; tier is
\* the tier of the cascade that produced it
MatchResult(p, score, match_type, tier) ==
    [produit_id |-> p.id, laboratoire_id |-> p.laboratoire_id,
     score |-> score, match_type |-> match_type, tier |-> tier]

\* no entry for a supplier
NoMatch ==
    [produit_id |-> 0, laboratoire_id |-> 0, score |-> 0,
     match_type |-> "none", tier |-> 0]

\* the active products, of target_lab_id when it is given
ActiveProducts(d, target_lab_id) ==
    SelectSeq(d.produits,
              LAMBDA p : p.actif /\ (target_lab_id = Null \/ p.laboratoire_id = target_lab_id))

\* sorted(results, key=lambda x: (-x.score, x.laboratoire_nom))
RECURSIVE SortMatches(_)
SortMatches(s) ==
    IF s = << >> THEN << >>
    ELSE LET h == Head(s)
             rest == SortMatches(Tail(s))
             Before(m) == \/ m.score > h.score
                          \/ m.score = h.score /\ m.laboratoire_id < h.laboratoire_id
         IN  SelectSeq(rest, Before) \o <<h>> \o SelectSeq(rest, LAMBDA m : ~Before(m))

\* tier 1 of find_matches_for_product: the products with the code of the line
ExactCip(d, target_lab_id) ==
    LET found == SelectSeq(ActiveProducts(d, target_lab_id),
                           LAMBDA p : /\ d.vente.code_cip_achete # Null
                                      /\ p.code_cip = d.vente.code_cip_achete)
    IN  [i \in 1..Len(found) |-> MatchResult(found[i], 10000, "exact_cip", 1)]

\* tier 2 of find_matches_for_product: the products of the group that the
\* reference table gives for the code of the line
GroupeGeneriqueBdpm(d, target_lab_id) ==
    LET found == SelectSeq(ActiveProducts(d, target_lab_id),
                           LAMBDA p : /\ d.vente.code_cip_achete # Null
                                      /\ d.bdpm # NoGroup
                                      /\ p.groupe_generique_id = d.bdpm)
    IN  [i \in 1..Len(found) |-> MatchResult(found[i], 9500, "groupe_generique_bdpm", 2)]

\* the score and type that tier 3 gives a product whose molecule matched
FuzzyMoleculeResult(p) ==
    IF p.groupe_generique_id # NoGroup /\ p.fuzzy.mol_score >= 95
    THEN MatchResult(p, IF p.fuzzy.component_score * 105 < 10000
                        THEN p.fuzzy.component_score * 105 ELSE 10000,
                     "groupe_generique", 3)
    ELSE MatchResult(p, p.fuzzy.component_score * 85, "fuzzy_molecule", 3)

\* tier 3 of find_matches_for_product
FuzzyMolecule(d, target_lab_id) ==
    LET found == SelectSeq(ActiveProducts(d, target_lab_id),
                           LAMBDA p : /\ p.fuzzy.mol_score >= 60
                                      /\ FuzzyMoleculeResult(p).score >= 6000)
    IN  [i \in 1..Len(found) |-> FuzzyMoleculeResult(found[i])]

\* tier 4 of find_matches_for_product
FuzzyCommercial(d, target_lab_id) ==
    LET found == SelectSeq(ActiveProducts(d, target_lab_id),
                           LAMBDA p : /\ p.fuzzy.name_score >= 60
                                      /\ p.fuzzy.name_score * 70 >= 5000)
    IN  [i \in 1..Len(found) |->
            MatchResult(found[i], found[i].fuzzy.name_score * 70, "fuzzy_commercial", 4)]

\* a cascade that looks up the generic group before the exact code
FindMatchesGroupFirst(d, target_lab_id) ==
    IF GroupeGeneriqueBdpm(d, target_lab_id) # << >>
    THEN SortMatches(GroupeGeneriqueBdpm(d, target_lab_id))
    ELSE IF ExactCip(d, target_lab_id) # << >>
    THEN SortMatches(ExactCip(d, target_lab_id))
    ELSE IF FuzzyMolecule(d, target_lab_id) # << >>
    THEN SortMatches(FuzzyMolecule(d, target_lab_id))
    ELSE SortMatches(FuzzyCommercial(d, target_lab_id))

\* find_matches_for_product(designation, code_cip, target_lab_id)
FindMatchesForProduct(d, target_lab_id) ==
    IF ExactCip(d, target_lab_id) # << >>
    THEN SortMatches(ExactCip(d, target_lab_id))
    ELSE IF GroupeGeneriqueBdpm(d, target_lab_id) # << >>
    THEN SortMatches(GroupeGeneriqueBdpm(d, target_lab_id))
    ELSE IF FuzzyMolecule(d, target_lab_id) # << >>
    THEN SortMatches(FuzzyMolecule(d, target_lab_id))
    ELSE SortMatches(FuzzyCommercial(d, target_lab_id))

\* match_ventes_to_catalogues for the line: best_match_by_lab
MatchVentesToCatalogues(d, min_score) ==
    LET valid_matches == SelectSeq(FindMatchesForProduct(d, Null),
                                   LAMBDA m : m.score >= min_score)
        OfLab(l) == SelectSeq(valid_matches, LAMBDA m : m.laboratoire_id = l)
        Best(s) == s[CHOOSE i \in 1..Len(s) :
                        /\ \A j \in 1..Len(s) : s[j].score <= s[i].score
                        /\ \A j \in 1..(i - 1) : s[j].score < s[i].score]
    IN  [l \in MatchLabos |-> IF OfLab(l) = << >> THEN NoMatch ELSE Best(OfLab(l))]

\* process_sales_matching for the line and one supplier: the VenteMatching
\* stored, NoMatch when none is
ProcessSalesMatching(d, labo_id, min_score) ==
    LET products == ActiveProducts(d, labo_id)
        by_cip == SelectSeq(products, LAMBDA p : p.code_cip = d.vente.code_cip_achete)
        candidates == SelectSeq(products,
                                LAMBDA p : p.groupe_generique_id = d.vente.groupe_generique_id)
        same_cond == SelectSeq(candidates,
                               LAMBDA p : /\ d.vente.conditionnement # Null
                                          /\ p.conditionnement # Null
                                          /\ p.conditionnement = d.vente.conditionnement)
        matches == FindMatchesForProduct(d, labo_id)
    IN  IF d.vente.code_cip_achete # Null /\ by_cip # << >>
        THEN MatchResult(by_cip[Len(by_cip)], 10000, "exact_cip", 1)
        ELSE IF d.vente.groupe_generique_id # NoGroup /\ candidates # << >>
        THEN IF same_cond # << >>
             THEN MatchResult(same_cond[1], 10000, "groupe_generique", 2)
             ELSE MatchResult(candidates[1], 9500, "groupe_generique", 2)
        ELSE IF matches # << >> /\ matches[1].score >= min_score
        THEN matches[1]
        ELSE NoMatch

\* the sale line, the group the reference table has for its code, and the
\* catalogues; (laboratoire_id, code_cip) is unique
InitMatch ==
    /\ mem = << >>
    /\ bdpm = << >>
    /\ svc = FALSE
    /\ cache = << >>
    /\ hist = << >>
    /\ rm = << >>
    /\ req = None
    /\ res = None
    /\ combo = None
    /\ api = None
    /\ \E code \in {Null, 1}, bdpm_groupe \in {NoGroup, 1}, cond \in {Null, 1},
          rows \in [DOMAIN ProduitLabo -> ProduitRows] :
          \E groupe \in {NoGroup, bdpm_groupe} :
              /\ code = Null => bdpm_groupe = NoGroup
              /\ \A i, j \in DOMAIN rows :
                    (i # j /\ ProduitLabo[i] = ProduitLabo[j])
                        => rows[i].code_cip # rows[j].code_cip
              /\ mt = [d |-> [vente |-> [code_cip_achete |-> code,
                                         groupe_generique_id |-> groupe,
                                         conditionnement |-> cond],
                              bdpm |-> bdpm_groupe,
                              produits |-> [i \in DOMAIN rows |->
                                  [id |-> i, laboratoire_id |-> ProduitLabo[i],
                                   actif |-> rows[i].actif,
                                   code_cip |-> rows[i].code_cip,
                                   groupe_generique_id |-> rows[i].groupe_generique_id,
                                   conditionnement |-> rows[i].conditionnement,
                                   fuzzy |-> rows[i].fuzzy]]],
                       op |-> "pending", target_lab_id |-> Null,
                       min_score |-> Null, out |-> << >>]

\* a call of find_matches_for_product, for all suppliers or for one
FindMatchesForProductCall ==
    /\ mt.op = "pending"
    /\ \E target_lab_id \in {Null} \cup MatchLabos :
          mt' = [mt EXCEPT !.op = "find_matches_for_product",
                           !.target_lab_id = target_lab_id,
                           !.out = FindMatchesForProduct(mt.d, target_lab_id)]
    /\ UNCHANGED <<mem, bdpm, svc, cache, hist, rm, req, res, combo, api>>

\* a call of match_ventes_to_catalogues
MatchVentesToCataloguesCall ==
    /\ mt.op = "pending"
    /\ \E min_score \in MinScores :
          mt' = [mt EXCEPT !.op = "match_ventes_to_catalogues",
                           !.min_score = min_score,
                           !.out = MatchVentesToCatalogues(mt.d, min_score)]
    /\ UNCHANGED <<mem, bdpm, svc, cache, hist, rm, req, res, combo, api>>

\* a request to process_sales_matching for the two suppliers
ProcessSalesMatchingCall ==
    /\ mt.op = "pending"
    /\ \E min_score \in MinScores :
          mt' = [mt EXCEPT !.op = "process_sales_matching",
                           !.min_score = min_score,
                           !.out = [l \in MatchLabos |->
                                       ProcessSalesMatching(mt.d, l, min_score)]]
    /\ UNCHANGED <<mem, bdpm, svc, cache, hist, rm, req, res, combo, api>>

NextMatch ==
    \/ FindMatchesForProductCall
    \/ MatchVentesToCataloguesCall
    \/ ProcessSalesMatchingCall

SpecMatch == InitMatch /\ [][NextMatch]_vars

\* ------------------------------------------------------------------------
\* api/optimization.py, api/matching.py, combo_optimizer.py: requests that
\* name suppliers
\* ------------------------------------------------------------------------

\* the supplier ids a request can name, one or two per request in the order
\* given; the Laboratoire table holds a subset
RequestLaboIds == {1, 2, 3}

\* ids of a list
Range(s) == {s[i] : i \in DOMAIN s}

\* run_optimization, up to its check of the suppliers: HTTP 404 naming the
\* missing ids when the number of rows found differs from the number of ids
\* of the request, else the optimization over the suppliers of the request
RunOptimizationLabos(known, labo_ids) ==
    LET labos == Range(labo_ids) \cap known
    IN  IF Cardinality(labos) # Len(labo_ids)
        THEN [status |-> 404, not_found |-> Range(labo_ids) \ labos, results |-> {}]
        ELSE [status |-> 200, not_found |-> {}, results |-> labos]

\* process_sales_matching, its selection of the target suppliers: the rows
\* whose id is in request.labo_ids, HTTP 404 when there is none
ProcessSalesLabos(known, labo_ids) ==
    LET labos == Range(labo_ids) \cap known
    IN  IF labos = {}
        THEN [status |-> 404, not_found |-> {}, results |-> {}]
        ELSE [status |-> 200, not_found |-> {}, results |-> labos]

\* calculate_lab_coverage over the suppliers named: an unknown supplier gets
\* a LaboCoverage named "?" with nothing covered, as any other entry
LabCoverages(known, labo_ids) ==
    [status |-> 200, not_found |-> {}, results |-> Range(labo_ids)]

InitLabos ==
    /\ mem = << >>
    /\ bdpm = << >>
    /\ svc = FALSE
    /\ cache = << >>
    /\ hist = << >>
    /\ rm = << >>
    /\ req = None
    /\ res = None
    /\ combo = None
    /\ mt = None
    /\ \E known \in SUBSET RequestLaboIds,
          labo_ids \in {<<a>> : a \in RequestLaboIds}
                           \cup {<<a, b>> : a, b \in RequestLaboIds} :
          api = [known |-> known, labo_ids |-> labo_ids, op |-> "pending",
                 response |-> [status |-> 0, not_found |-> {}, results |-> {}]]

\* one request to one of the three entry points
LabosCall ==
    /\ api.op = "pending"
    /\ \/ api' = [api EXCEPT !.op = "run_optimization",
                             !.response = RunOptimizationLabos(api.known, api.labo_ids)]
       \/ api' = [api EXCEPT !.op = "process_sales_matching",
                             !.response = ProcessSalesLabos(api.known, api.labo_ids)]
       \/ api' = [api EXCEPT !.op = "calculate_lab_coverage",
                             !.response = LabCoverages(api.known, api.labo_ids)]
    /\ UNCHANGED <<mem, bdpm, svc, cache, hist, rm, req, res, combo, mt>>

SpecLabos == InitLabos /\ [][LabosCall]_vars

\* ------------------------------------------------------------------------
\* intelligent_matching.py: the cache of the derived indexes
\* ------------------------------------------------------------------------

\* the keys of IntelligentMatcher._cache; the reference lookup is cached per
\* code, here for the code 1
CacheKeys == {"labs_map", "products_by_cip", "products_by_groupe", "bdpm_lookup_1"}

\* the contents the store can have: the active suppliers, the one catalogue
\* product (absent, or active with code 1 and a group or none) and the group
\* of code 1 in the reference table
Stores ==
    [labs : SUBSET {1}, produit : {"absent", "sans_groupe", "groupe"},
     bdpm : {NoGroup, 1}]

\* what the queries of _get_labs_map, _get_products_by_cip,
\* _get_products_by_groupe and _lookup_groupe_from_bdpm build from the store
Rebuild(store, key) ==
    CASE key = "labs_map" -> store.labs
      [] key = "products_by_cip" -> IF store.produit = "absent" THEN {} ELSE {1}
      [] key = "products_by_groupe" -> IF store.produit = "groupe" THEN {1} ELSE {}
      [] key = "bdpm_lookup_1" -> {store.bdpm} \ {NoGroup}

\* a cache without the keys lost
Without(c, lost) == [k \in DOMAIN c \ lost |-> c[k]]

\* a clear_cache that drops the three indexes and keeps the reference lookups
ClearCacheIndexes(c) == Without(c, CacheKeys \ {"bdpm_lookup_1"})

\* clear_cache: self._cache.clear()
ClearCache(c) == Without(c, CacheKeys)

\* a matcher just built over a store
InitCache ==
    /\ mem = << >>
    /\ bdpm = << >>
    /\ svc = FALSE
    /\ cache = << >>
    /\ hist = << >>
    /\ rm = << >>
    /\ req = None
    /\ res = None
    /\ combo = None
    /\ mt = None
    /\ \E store \in Stores :
          api = [store |-> store, _cache |-> << >>, changed |-> FALSE,
                 before |-> << >>, op |-> "init", key |-> "", value |-> {}]

\* a lookup through one of the indexes: the entry of the cache when there is
\* one, else the index is built from the store and kept
LookupCall ==
    /\ \E key \in CacheKeys :
          IF key \in DOMAIN api._cache
          THEN api' = [api EXCEPT !.op = "lookup", !.key = key,
                                  !.value = api._cache[key]]
          ELSE api' = [api EXCEPT !.op = "lookup", !.key = key,
                                  !.value = Rebuild(api.store, key),
                                  !._cache = [k \in DOMAIN api._cache \cup {key} |->
                                                 IF k = key THEN Rebuild(api.store, key)
                                                 ELSE api._cache[k]]]
    /\ UNCHANGED <<mem, bdpm, svc, cache, hist, rm, req, res, combo, mt>>

\* a catalogue or reference-table change; changed records that no
\* clear_cache has followed it yet, before the entries the cache held then
StoreChange ==
    /\ \E store \in Stores \ {api.store} :
          api' = [api EXCEPT !.store = store, !.changed = TRUE,
                             !.before = api._cache,
                             !.op = "change", !.key = "", !.value = {}]
    /\ UNCHANGED <<mem, bdpm, svc, cache, hist, rm, req, res, combo, mt>>

\* matcher.clear_cache()
ClearCacheCall ==
    /\ api' = [api EXCEPT !._cache = ClearCache(api._cache), !.changed = FALSE,
                          !.op = "clear_cache", !.key = "", !.value = {}]
    /\ UNCHANGED <<mem, bdpm, svc, cache, hist, rm, req, res, combo, mt>>

\* the TTLCache drops an entry after ttl seconds
Expire ==
    /\ \E key \in DOMAIN api._cache :
          api' = [api EXCEPT !._cache = Without(api._cache, {key}),
                             !.op = "expire", !.key = "", !.value = {}]
    /\ UNCHANGED <<mem, bdpm, svc, cache, hist, rm, req, res, combo, mt>>

NextCache ==
    \/ LookupCall
    \/ StoreChange
    \/ ClearCacheCall
    \/ Expire

SpecCache == InitCache /\ [][NextCache]_vars

\* ------------------------------------------------------------------------
\* batch_matching.py: batch_match_products on its own
\* ------------------------------------------------------------------------

\* the inputs of a call: up to two sale lines, a reference list of up to
\* three entries, and a score_threshold
InitBatch ==
    /\ mem = << >>
    /\ bdpm = << >>
    /\ svc = FALSE
    /\ cache = << >>
    /\ hist = << >>
    /\ rm = << >>
    /\ req = None
    /\ res = None
    /\ combo = None
    /\ mt = None
    /\ \E n \in 0..2, k \in 0..3, score_threshold \in {ScoreThreshold, 90} :
          \E ventes \in [1..n -> [cip13 : {None, "c1"}, designation : Designations]],
             refs \in [1..k -> Codes] :
              api = [ventes |-> ventes, bdpm |-> refs,
                     score_threshold |-> score_threshold,
                     op |-> "pending", out |-> << >>]

\* batch_match_products(ventes, bdpm, score_threshold)
BatchMatchProductsCall ==
    /\ api.op = "pending"
    /\ api' = [api EXCEPT !.op = "batch_match_products",
                          !.out = BatchMatchProducts(api.ventes, api.bdpm,
                                                     api.score_threshold)]
    /\ UNCHANGED <<mem, bdpm, svc, cache, hist, rm, req, res, combo, mt>>

SpecBatch == InitBatch /\ [][BatchMatchProductsCall]_vars

\* ------------------------------------------------------------------------
\* matching_service.py: what the calls of a MatchingService return
\* ------------------------------------------------------------------------

\* a get_or_compute_match that computes and stores whether or not the code is
\* in the cache
GetOrComputeAlways(m, bd, ch, cip, designation) ==
    LET match == ComputeSingleMatch(bd, designation)
    IN  [mem |-> IF match.matched_cip13 # None THEN StoreMatch(m, cip, match) ELSE m,
         ret |-> match.matched_cip13]

\* get_or_compute_match: the memory after the call and the matched_cip13 of
\* the dict returned
GetOrComputeMatchResult(m, bd, ch, cip, designation) ==
    IF cip \in DOMAIN ch
    THEN [mem |-> m, ret |-> ch[cip].matched_cip13]
    ELSE GetOrComputeAlways(m, bd, ch, cip, designation)

\* no service yet; api keeps the last call (op, cip, ret), whether a
\* get_or_compute_match left the memory as it was, the cache before an
\* invalidate_cache, the validated records of the memory when the cache was
\* last loaded, and the codes loaded then and not invalidated since
InitGet ==
    /\ mem = << >>
    /\ bdpm \in BdpmTables
    /\ svc = FALSE
    /\ cache = << >>
    /\ hist = << >>
    /\ rm = << >>
    /\ req = None
    /\ res = None
    /\ combo = None
    /\ mt = None
    /\ api = [op |-> "none", cip |-> None, ret |-> None, unchanged |-> TRUE,
              cache_before |-> << >>, loaded |-> << >>, live |-> {}]

\* a stored match is validated outside the service: validate_cip
MemoryWritten ==
    /\ \E cip \in DOMAIN mem : mem' = ValidateCip(mem, cip)
    /\ api' = [api EXCEPT !.op = "memory", !.cip = None, !.ret = None,
                          !.unchanged = TRUE, !.cache_before = << >>]
    /\ UNCHANGED <<bdpm, svc, cache, hist, rm, req, res, combo, mt>>

\* MatchingService(db)
ServiceBuilt ==
    /\ svc' = TRUE
    /\ cache' = LoadCache(mem)
    /\ api' = [api EXCEPT !.op = "init", !.cip = None, !.ret = None,
                          !.unchanged = TRUE, !.cache_before = << >>,
                          !.loaded = [c \in {x \in DOMAIN mem : mem[x].validated} |-> mem[c]],
                          !.live = {x \in DOMAIN mem : mem[x].validated}]
    /\ UNCHANGED <<mem, bdpm, hist, rm, req, res, combo, mt>>

\* service.get_or_compute_match(cip13, designation)
ServiceGet ==
    /\ svc
    /\ \E cip \in Codes, designation \in Designations :
          LET r == GetOrComputeMatchResult(mem, bdpm, cache, cip, designation)
          IN  /\ mem' = r.mem
              /\ api' = [api EXCEPT !.op = "get_or_compute_match", !.cip = cip,
                                    !.ret = r.ret, !.unchanged = (r.mem = mem),
                                    !.cache_before = << >>]
    /\ UNCHANGED <<bdpm, svc, cache, hist, rm, req, res, combo, mt>>

\* service.invalidate_cache(cip13)
ServiceInvalidate ==
    /\ svc
    /\ \E cip \in Codes \cup {None} :
          /\ cache' = IF cip # None
                      THEN [c \in DOMAIN cache \ {cip} |-> cache[c]]
                      ELSE LoadCache(mem)
          /\ api' = [api EXCEPT !.op = "invalidate_cache", !.cip = cip,
                                !.ret = None, !.unchanged = TRUE,
                                !.cache_before = cache,
                                !.loaded = IF cip # None THEN @
                                           ELSE [c \in {x \in DOMAIN mem : mem[x].validated} |-> mem[c]],
                                !.live = IF cip # None THEN @ \ {cip}
                                         ELSE {x \in DOMAIN mem : mem[x].validated}]
    /\ UNCHANGED <<mem, bdpm, svc, hist, rm, req, res, combo, mt>>

NextGet ==
    \/ MemoryWritten
    \/ ServiceBuilt
    \/ ServiceGet
    \/ ServiceInvalidate

SpecGet == InitGet /\ [][NextGet]_vars

\* ------------------------------------------------------------------------
\* concurrent sessions on the matching memory: register_match, _store_match
\* and populate_from_bdpm statement by statement, one call per session
\* ------------------------------------------------------------------------

ConcurrentSessions == {"s1", "s2"}

\* every code in a group of its own, as add_to_memory(cip) leaves them
Singletons ==
    [c \in Codes |-> NewRecord(CHOOSE i \in 1..3 : c = <<"c1", "c2", "c3">>[i], None)]

InitConcurrent ==
    /\ mem \in {<< >>, Singletons}
    /\ bdpm \in BdpmTables
    /\ svc = FALSE
    /\ cache = << >>
    /\ hist = << >>
    /\ rm = [s \in ConcurrentSessions |-> IdleCall]
    /\ req = None
    /\ res = None
    /\ combo = None
    /\ mt = None
    /\ api = [links |-> {}]

ConcurrentFrame == UNCHANGED <<bdpm, svc, cache, hist, req, res, combo, mt>>

\* register_match(a, b) is entered; api.links keeps the pairs registered
RegisterMatchEnter(s) ==
    \E a, b \in Codes :
        /\ rm[s].pc = "idle"
        /\ rm' = [rm EXCEPT ![s] = [IdleCall EXCEPT !.pc = "read_a", !.a = a, !.b = b,
                                                     !.pre = mem]]
        /\ api' = [api EXCEPT !.links = @ \cup {{a, b}}]
        /\ UNCHANGED mem
        /\ ConcurrentFrame

\* _store_match(cip13, designation, match) is entered
StoreMatchEnter(s) ==
    \E cip, matched \in Codes :
        /\ rm[s].pc = "idle"
        /\ rm' = [rm EXCEPT ![s] = [IdleCall EXCEPT !.pc = "sm_existing", !.a = cip,
                                                     !.b = matched, !.pre = mem]]
        /\ UNCHANGED <<mem, api>>
        /\ ConcurrentFrame

\* existing = query(MatchingMemory).filter(cip13 == cip13).first()
SmExisting(s) ==
    /\ rm[s].pc = "sm_existing"
    /\ rm' = [rm EXCEPT ![s].ga = GetGroupeForCip(mem, rm[s].a),
                        ![s].pc = IF rm[s].a \in DOMAIN mem THEN "sm_update" ELSE "sm_max"]
    /\ UNCHANGED mem
    /\ StepFrame

\* the fields of the existing record are set and committed
SmUpdate(s) ==
    /\ rm[s].pc = "sm_update"
    /\ mem' = [mem EXCEPT ![rm[s].a].matched = rm[s].b, ![rm[s].a].validated = FALSE]
    /\ rm' = [rm EXCEPT ![s].gid = rm[s].ga, ![s].pc = "done"]
    /\ StepFrame

\* SELECT COALESCE(MAX(groupe_equivalence_id), 0) + 1
SmMax(s) ==
    /\ rm[s].pc = "sm_max"
    /\ rm' = [rm EXCEPT ![s].gid = GetNextGroupeId(mem), ![s].pc = "sm_insert"]
    /\ UNCHANGED mem
    /\ StepFrame

\* db.add(memory); db.commit(): cip13 is UNIQUE, the INSERT of a code another
\* session has committed meanwhile fails
SmInsert(s) ==
    /\ rm[s].pc = "sm_insert"
    /\ mem' = IF rm[s].a \in DOMAIN mem
              THEN mem
              ELSE Insert(mem, rm[s].a, NewRecord(rm[s].gid, rm[s].b))
    /\ rm' = [rm EXCEPT ![s].pc = IF rm[s].a \in DOMAIN mem THEN "failed" ELSE "done"]
    /\ StepFrame

\* populate_from_bdpm is entered: the generic groups in the order of the query
PopulateEnter(s) ==
    \E gorder \in RowOrders(GenIds(bdpm)) :
        /\ rm[s].pc = "idle"
        /\ rm' = [rm EXCEPT ![s] = [pc |-> IF gorder = << >> THEN "done" ELSE "pop_group",
                                    a |-> None, b |-> None, ga |-> NoGroup,
                                    gb |-> NoGroup, gid |-> NoGroup, pre |-> mem,
                                    gens |-> gorder, cips |-> << >>]]
        /\ UNCHANGED <<mem, api>>
        /\ ConcurrentFrame

\* the rows of the next generic group are read, then existing_groupe_id: the
\* group of the first of them found in memory, or get_next_groupe_id
PopGroup(s) ==
    /\ rm[s].pc = "pop_group"
    /\ LET cips == SelectSeq(bdpm, LAMBDA row : row.gen = Head(rm[s].gens))
           found == SelectSeq(cips, LAMBDA row : GetGroupeForCip(mem, row.cip13) # NoGroup)
       IN  rm' = [rm EXCEPT ![s].cips = [i \in DOMAIN cips |-> cips[i].cip13],
                            ![s].gid = IF found # << >>
                                       THEN GetGroupeForCip(mem, found[1].cip13)
                                       ELSE GetNextGroupeId(mem),
                            ![s].pc = "pop_add"]
    /\ UNCHANGED mem
    /\ StepFrame

\* one turn of the second loop: add_to_memory of a code without group
PopAdd(s) ==
    /\ rm[s].pc = "pop_add"
    /\ mem' = AddToMemory(mem, Head(rm[s].cips), rm[s].gid)
    /\ LET cips == Tail(rm[s].cips)
           gens == IF cips = << >> THEN Tail(rm[s].gens) ELSE rm[s].gens
       IN  rm' = [rm EXCEPT ![s].cips = cips, ![s].gens = gens,
                            ![s].pc = IF cips # << >> THEN "pop_add"
                                      ELSE IF gens # << >> THEN "pop_group" ELSE "done"]
    /\ StepFrame

NextConcurrent ==
    \E s \in ConcurrentSessions :
        \/ RegisterMatchEnter(s)
        \/ RmReadA(s)
        \/ RmReadB(s)
        \/ RmMerge(s)
        \/ RmAddB(s)
        \/ RmAddA(s)
        \/ RmNextId(s)
        \/ RmAddFirst(s)
        \/ RmAddSecond(s)
        \/ StoreMatchEnter(s)
        \/ SmExisting(s)
        \/ SmUpdate(s)
        \/ SmMax(s)
        \/ SmInsert(s)
        \/ PopulateEnter(s)
        \/ PopGroup(s)
        \/ PopAdd(s)

SpecConcurrent == InitConcurrent /\ [][NextConcurrent]_vars

\* ------------------------------------------------------------------------
\* api/optimization.py: preview_optimization next to optimize_multi_labo
\* ------------------------------------------------------------------------

\* the loop of preview_optimization over the matchings of one supplier:
\* the rows with a produit_id, less the exclusions of the request, with a
\* product that has a price
PreviewKeys(r, l) ==
    LET all == [v \in 1..Len(r.ventes) |-> <<v, l>>]
    IN  SelectSeq(all, LAMBDA k :
            /\ r.matching[k[1]][l] # 0
            /\ r.matching[k[1]][l] \notin ObjectiveOf(r, l).exclusions
            /\ Catalogue[r.matching[k[1]][l]].prix_ht # 0)

\* objectif_min of preview_optimization, in hundredths of the money unit
PreviewObjectifMin(obj, potentiel) ==
    IF obj.objectif_montant # Null /\ obj.objectif_montant # 0
    THEN obj.objectif_montant * 100
    ELSE IF obj.objectif_pct # Null /\ obj.objectif_pct # 0 /\ potentiel > 0
    THEN potentiel * obj.objectif_pct
    ELSE 0

\* the entries of "labos" in the answer of preview_optimization
PreviewOptimization(r) ==
    [l \in Labos |->
        LET keys == PreviewKeys(r, l)
            potentiel == MontantSum(r, keys)
            objectif_min == PreviewObjectifMin(ObjectiveOf(r, l), potentiel)
        IN  [labo_id |-> l,
             potentiel_ht |-> potentiel,
             nb_produits_matches |-> Len(keys),
             objectif_minimum_calcule |-> objectif_min,
             realisable |-> potentiel * 100 >= objectif_min]]

\* POST /optimization/preview
\* no answer yet
NoPreview == [status |-> 0, labos |-> << >>]

InitPreview ==
    /\ mem = << >>
    /\ bdpm = << >>
    /\ svc = FALSE
    /\ cache = << >>
    /\ hist = << >>
    /\ rm = << >>
    /\ res = Pending
    /\ combo = None
    /\ mt = None
    /\ api = NoPreview
    /\ InitRequest

PreviewOptimizationCall ==
    /\ api = NoPreview
    /\ api' = IF req.ventes = << >>
              THEN [status |-> 404, labos |-> << >>]
              ELSE [status |-> 200, labos |-> PreviewOptimization(req)]
    /\ UNCHANGED <<mem, bdpm, svc, cache, hist, rm, req, res, combo, mt>>

NextPreview ==
    \/ PreviewOptimizationCall
    \/ OptimizeNoData
    \/ OptimizeSolverError
    \/ OptimizeNoSolution
    \/ OptimizeSolved

SpecPreview == InitPreview /\ [][NextPreview]_vars

\* ------------------------------------------------------------------------
\* api/validations.py and api/pagination.py: the pages of pending validations
\* ------------------------------------------------------------------------

\* number of rows of pending_validations (their ids are 1..n)
MaxValidations == 3

\* largest limit a client asks for
MaxLimit == 2

\* the values of created_at
CreatedAt == {1, 2}

\* encode_cursor({'last_id': id}): the JSON text of the dictionary, as its
\* key and its value
EncodeCursor(last_id) == <<"last_id", last_id>>

\* decode_cursor: the dictionary, or {} for a text that is not one
DecodeCursor(cursor) ==
    IF Len(cursor) = 2 /\ cursor[1] = "last_id"
    THEN [last_id |-> cursor[2]]
    ELSE [last_id |-> Null]

\* WHERE status = 'pending' [AND id > :last_id]
PendingAfter(rows, cursor) ==
    LET last_id == IF cursor # << >> THEN DecodeCursor(cursor).last_id ELSE Null
    IN  {i \in DOMAIN rows :
            /\ rows[i].pending
            /\ (last_id # Null /\ last_id # 0) => i > last_id}

\* ORDER BY created_at DESC: every order of the ids that the sort allows
\* (rows with the same created_at come in any order)
OrderedByCreatedAtDesc(rows, ids) ==
    {s \in RowOrders(ids) :
        \A i, j \in DOMAIN s : i < j => rows[s[i]].created_at >= rows[s[j]].created_at}

\* get_pending_validations for one answer of the database: results are the
\* first limit + 1 rows, items the first limit of them
PendingPage(results, limit) ==
    LET items == SubSeq(results, 1, IF Len(results) > limit THEN limit ELSE Len(results))
    IN  [items |-> items,
         next_cursor |-> IF Len(results) > limit
                         THEN EncodeCursor(items[Len(items)])
                         ELSE << >>]

InitPages ==
    /\ mem = << >>
    /\ bdpm = << >>
    /\ svc = FALSE
    /\ cache = << >>
    /\ hist = << >>
    /\ rm = << >>
    /\ req = None
    /\ res = None
    /\ combo = None
    /\ mt = None
    /\ \E n \in 0..MaxValidations, limit \in 1..MaxLimit :
          \E rows \in [1..n -> [created_at : CreatedAt, pending : BOOLEAN]] :
              api = [rows |-> rows, limit |-> limit, cursor |-> << >>,
                     seen |-> << >>, op |-> "start"]

\* GET /api/validations/pending with the cursor of the page before (none for
\* the first page); seen collects the ids of the items returned so far
GetPendingValidations ==
    /\ api.op \in {"start", "more"}
    /\ \E ordered \in OrderedByCreatedAtDesc(api.rows, PendingAfter(api.rows, api.cursor)) :
          LET results == SubSeq(ordered, 1, IF Len(ordered) > api.limit + 1
                                            THEN api.limit + 1 ELSE Len(ordered))
              page == PendingPage(results, api.limit)
          IN  api' = [api EXCEPT !.seen = @ \o page.items,
                                 !.cursor = page.next_cursor,
                                 !.op = IF page.next_cursor = << >> THEN "end" ELSE "more"]
    /\ UNCHANGED <<mem, bdpm, svc, cache, hist, rm, req, res, combo, mt>>

SpecPages == InitPages /\ [][GetPendingValidations]_vars

\* ------------------------------------------------------------------------
\* Properties of the equivalence memory
\* ------------------------------------------------------------------------

\* the code -> group id mapping of a memory
GroupMap(m) == [c \in DOMAIN m |-> m[c].g]

SameGroup(m, x, y) ==
    /\ x \in DOMAIN m
    /\ y \in DOMAIN m
    /\ m[x].g = m[y].g

\* C1: after register_match(a, b) followed by register_match(b, c), a and c
\* both have a group and it is the same group.
C1_UnionTransitive ==
    (Len(hist) = 2 /\ hist[1].b = hist[2].a) =>
        LET a == hist[1].a
            c == hist[2].b
        IN  /\ GetGroupeForCip(mem, a) # NoGroup
            /\ GetGroupeForCip(mem, c) # NoGroup
            /\ GetGroupeForCip(mem, a) = GetGroupeForCip(mem, c)

\* register_match(a, b) then register_match(b, c) have run on three different
\* codes, and the group they end in is not the newest one
C1_Witness ==
    /\ Len(hist) = 2
    /\ hist[1].b = hist[2].a
    /\ Cardinality({hist[1].a, hist[1].b, hist[2].b}) = 3
    /\ hist[2].ret = 2
    /\ {hist[1].a, hist[1].b, hist[2].b} \subseteq DOMAIN mem

\* C2: a second register_match(a, b) made right after the first returns the
\* same group id and changes no record of the memory.
C2_RegisterMatchIdempotent ==
    [][(Len(hist') = 2 /\ hist'[1].a = hist'[2].a /\ hist'[1].b = hist'[2].b) =>
          (hist'[2].ret = hist'[1].ret /\ mem' = mem)]_vars

\* register_match has been called twice in a row with the same two different
\* codes, on a memory that holds validated and unvalidated records
C2_Witness ==
    /\ Len(hist) = 2
    /\ hist[1].a = hist[2].a
    /\ hist[1].b = hist[2].b
    /\ hist[1].a # hist[1].b
    /\ \E c \in DOMAIN mem : mem[c].validated
    /\ \E c \in DOMAIN mem : ~mem[c].validated

\* C3: register_match(a, b) and register_match(b, a), made from the same
\* memory, return the same group id and leave the same code -> group id
\* mapping. In a step that makes the call register_match(a, b), the memory
\* before the step is the common starting memory.
C3_RegisterMatchCommutative ==
    [][Len(hist') > 0 =>
          LET call == hist'[Len(hist')]
              swapped == RegisterMatchResult(mem, call.b, call.a)
          IN  /\ swapped.ret = call.ret
              /\ GroupMap(swapped.mem) = GroupMap(mem')]_vars

\* C4: two codes that have the same group id have the same group id after
\* every call.
C4_GroupsNeverSplit ==
    [][\A x, y \in Codes : SameGroup(mem, x, y) => SameGroup(mem', x, y)]_vars

\* two different codes share a group and one of them carries a match written
\* by _store_match
C4_Witness ==
    \E x, y \in DOMAIN mem :
        /\ x # y
        /\ mem[x].g = mem[y].g
        /\ mem[x].matched # None

\* C5: wherever register_match(a, b) is interrupted, the committed memory is
\* the memory before the call or the memory after the complete call.
C5_RegisterMatchAtomic ==
    \A s \in DOMAIN rm :
        rm[s].pc = "interrupted" =>
            \/ mem = rm[s].pre
            \/ mem = RegisterMatchResult(rm[s].pre, rm[s].a, rm[s].b).mem

\* C6: a record that is validated stays validated and keeps its matched code.
C6_ValidatedPreserved ==
    [][\A c \in DOMAIN mem :
          mem[c].validated =>
              /\ c \in DOMAIN mem'
              /\ mem'[c].validated
              /\ mem'[c].matched = mem[c].matched]_vars


\* ------------------------------------------------------------------------
\* Properties of the allocation optimizer
\* ------------------------------------------------------------------------

Returned == res # Pending

\* how many entries of the 'ventes' lists of the repartition carry the sale
\* line v
Occurrences(v) ==
    IF res.repartition = << >>
    THEN 0
    ELSE SumSeq([i \in 1..Len(LaboIds) |->
                    Len(SelectSeq(res.repartition[LaboIds[i]].ventes,
                                  LAMBDA e : e.vente_id = v))])

\* C7: in every returned result each sale line is in the 'ventes' list of at
\* most one supplier, and at most once there.
C7_OneSupplierPerLine ==
    Returned => \A v \in VenteIds : Occurrences(v) <= 1

\* a result assigns a sale line that two suppliers could have taken
C7_Witness ==
    /\ Returned
    /\ res.success
    /\ \E v \in VenteIds :
          /\ Occurrences(v) = 1
          /\ \A l \in Labos : Eligible(req, v, l)

C9_NoPartialAllocation ==
    (Returned /\ res.solver \notin {"none", "OPTIMAL", "FEASIBLE"}) =>
        /\ ~res.success
        /\ res.repartition = << >>
        /\ res.chiffre_total_ht = 0
        /\ res.remise_totale = 0
        /\ res.couverture_pct = 0

\* the objectives cannot be met together although lines could be assigned
C9_Witness ==
    /\ Returned
    /\ res.solver = "INFEASIBLE"
    /\ XKeys(req) # << >>

\* C10 as stated: the status is one of OPTIMAL, FEASIBLE, INFEASIBLE,
\* UNBOUNDED, TIMEOUT, and a solve stopped by the time limit is reported
\* with status TIMEOUT.
C10_StatusAsStated ==
    Returned =>
        /\ res.status \in {"OPTIMAL", "FEASIBLE", "INFEASIBLE", "UNBOUNDED", "TIMEOUT"}
        /\ res.timed_out => res.status = "TIMEOUT"

\* C10 amended: the status is one of OPTIMAL, FEASIBLE, INFEASIBLE,
\* UNBOUNDED, NOT_SOLVED, UNKNOWN, NO_DATA, SOLVER_ERROR, and a solve stopped
\* by the time limit is reported with status FEASIBLE when it had found a
\* solution (success = true) and with status NOT_SOLVED otherwise.
C10_StatusAmended ==
    Returned =>
        /\ res.status \in {"OPTIMAL", "FEASIBLE", "INFEASIBLE", "UNBOUNDED",
                           "NOT_SOLVED", "UNKNOWN", "NO_DATA", "SOLVER_ERROR"}
        /\ res.timed_out =>
              res.status = (IF res.success THEN "FEASIBLE" ELSE "NOT_SOLVED")

\* the time limit ended a solve that had found no solution
C10_Witness ==
    /\ Returned
    /\ res.timed_out
    /\ ~res.success


\* the request states no positive minimum for any supplier
ZeroObjectives(r) == \A l \in Labos : Minimums(r)[l] <= 0

\* the suppliers whose 'ventes' list carries the sale line v
AssignedTo(v) ==
    IF res.repartition = << >>
    THEN {}
    ELSE {l \in Labos :
            \E i \in DOMAIN res.repartition[l].ventes :
                res.repartition[l].ventes[i].vente_id = v}

\* the sale line v has a non-null, non-excluded match that brings a rebate
HasPositiveMatch(r, v) ==
    \E l \in Labos : Eligible(r, v, l) /\ GainRemise(r, <<v, l>>) > 0

\* the supplier l brings the largest rebate the sale line v can get
BestFor(r, v, l) ==
    /\ Eligible(r, v, l)
    /\ \A o \in Labos : Eligible(r, v, o) => GainRemise(r, <<v, o>>) <= GainRemise(r, <<v, l>>)

\* the sum of amount x effective discount over the assigned lines
AssignedGain(r) ==
    SumSeq([v \in VenteIds |->
              SumSeq([i \in 1..Len(LaboIds) |->
                        IF LaboIds[i] \in AssignedTo(v)
                        THEN GainRemise(r, <<v, LaboIds[i]>>)
                        ELSE 0])])

ZeroObjectiveOptimum ==
    Returned /\ res.success /\ res.status = "OPTIMAL" /\ ZeroObjectives(req)

\* C11 as stated: with every objective at zero and status OPTIMAL, every
\* sale line with a match of positive rebate is assigned to a supplier of
\* maximal rebate for it, no other line is assigned, and remise_totale is the
\* sum of amount x effective discount over the assigned lines.
C11_OptimumAsStated ==
    ZeroObjectiveOptimum =>
        /\ \A v \in VenteIds :
              IF HasPositiveMatch(req, v)
              THEN \E l \in AssignedTo(v) : BestFor(req, v, l)
              ELSE AssignedTo(v) = {}
        /\ res.remise_totale = AssignedGain(req)

\* C11 amended: with every objective at zero and status OPTIMAL, every sale
\* line with a match of positive rebate is assigned to a supplier of maximal
\* rebate for it, a line is assigned only to a supplier of maximal rebate
\* for it, no line without a non-null, non-excluded match of positive
\* quantity is assigned (a line whose matches all bring a zero rebate may be
\* assigned or not), and remise_totale is the sum of amount x effective
\* discount over the assigned lines.
C11_OptimumAmended ==
    ZeroObjectiveOptimum =>
        /\ \A v \in VenteIds :
              /\ HasPositiveMatch(req, v) => \E l \in AssignedTo(v) : BestFor(req, v, l)
              /\ (\A l \in Labos : ~Eligible(req, v, l)) => AssignedTo(v) = {}
              /\ \A l \in AssignedTo(v) : BestFor(req, v, l)
        /\ res.remise_totale = AssignedGain(req)

\* one line goes to the better of its two suppliers, the other line has no
\* match and stays unassigned
C11_Witness ==
    /\ ZeroObjectiveOptimum
    /\ \E v, w \in VenteIds :
          /\ \A l \in Labos : Eligible(req, v, l)
          /\ GainRemise(req, <<v, 1>>) # GainRemise(req, <<v, 2>>)
          /\ AssignedTo(v) # {}
          /\ req.ventes[w] > 0
          /\ \A l \in Labos : ~Eligible(req, w, l)
          /\ AssignedTo(w) = {}


\* ------------------------------------------------------------------------
\* Properties of the greedy combination
\* ------------------------------------------------------------------------

\* C12: over the same sale lines, matches and suppliers, with no positive
\* objective, the remise_totale of an OPTIMAL result of optimize_multi_labo
\* is at least the montant_remise_total of find_best_combo_greedy.
C12_OptimizerAtLeastGreedy ==
    (ZeroObjectiveOptimum /\ combo.pc = "done") =>
        res.remise_totale >= combo.out.montant_remise_total


\* a round of the greedy loop has appended a supplier
RoundAdded ==
    /\ combo.pc = "loop"
    /\ combo'.pc = "loop"
    /\ Len(combo'.selected_labos) = Len(combo.selected_labos) + 1

\* covered amount / total amount, in tenths of a percent
CoveragePct(d, ventes_couvertes) ==
    ComboResult(d, << >>, ventes_couvertes, 0).couverture_totale_pct

\* C13: from one round to the next the set of covered sale lines only
\* grows, the cumulative coverage does not decrease, and the lines credited
\* to the supplier just added are disjoint from the lines covered before.
C13_CoverageGrows ==
    [][RoundAdded =>
          LET added == combo'.selected_labos[Len(combo'.selected_labos)]
          IN  /\ combo.ventes_couvertes \subseteq combo'.ventes_couvertes
              /\ combo'.ventes_couvertes = combo.ventes_couvertes \cup added.ventes_couvertes
              /\ CoveragePct(combo.d, combo'.ventes_couvertes)
                    >= CoveragePct(combo.d, combo.ventes_couvertes)
              /\ added.ventes_couvertes \cap combo.ventes_couvertes = {}]_vars

\* three suppliers, each covering lines, the later ones lines that a
\* supplier selected before them matches too
C13_Witness ==
    /\ combo.pc = "loop"
    /\ Len(combo.selected_labos) = 3
    /\ \A i \in 1..3 : combo.selected_labos[i].ventes_couvertes # {}
    /\ \E v \in combo.selected_labos[1].ventes_couvertes :
          combo.selected_labos[2].labo_id \in combo.d.match[v]

\* the rebate the supplier l would add over the sale lines S:
\* covered amount x negotiated rate
AdditionalRemise(d, l, S) ==
    SumMontant(d, {v \in S : l \in d.match[v]}) * RemiseNegociee[l]

\* C14: the supplier a round adds is, among the active suppliers not yet
\* selected, one of the largest additional rebate amount over the uncovered
\* lines; no supplier is selected twice and the principal one is first.
C14_GreedyChoice ==
    [][RoundAdded =>
          LET selected == combo'.selected_labos
              added == selected[Len(selected)].labo_id
              restantes == combo.d.ventes \ combo.ventes_couvertes
              others == combo.d.actif \ SelectedIds(combo.selected_labos)
          IN  /\ added \in others
              /\ \A o \in others :
                    AdditionalRemise(combo.d, o, restantes)
                        <= AdditionalRemise(combo.d, added, restantes)
              /\ selected[1].labo_id = combo.d.principal
              /\ \A i, j \in DOMAIN selected :
                    selected[i].labo_id = selected[j].labo_id => i = j]_vars

\* supplier 3 (15 %) has been preferred to supplier 2 (20 %), which also
\* matches an uncovered line that has an amount
C14_Witness ==
    /\ combo.pc = "loop"
    /\ combo.d.principal = 1
    /\ Len(combo.selected_labos) = 2
    /\ combo.selected_labos[2].labo_id = 3
    /\ 2 \in combo.d.actif
    /\ \E v \in combo.d.ventes \ combo.selected_labos[1].ventes_couvertes :
          2 \in combo.d.match[v] /\ combo.d.montant[v] > 0

ReturnedFor(l) ==
    IF mt.op = "pending" THEN {}
    ELSE IF mt.op = "find_matches_for_product"
    THEN {mt.out[i] : i \in {j \in 1..Len(mt.out) : mt.out[j].laboratoire_id = l}}
    ELSE {mt.out[l]} \ {NoMatch}

\* C16: for a sale line and a supplier the candidates returned are those of
\* the first tier, in the order exact code, generic group, fuzzy components,
\* fuzzy full name, that has a candidate for that supplier: a returned
\* candidate of tier k means no tier below k had a candidate for the
\* supplier, and a supplier with a candidate at some tier is not left without
\* result by find_matches_for_product because another supplier matched.
C16_CascadePerSupplier ==
    \A l \in MatchLabos :
        LET TierCandidates(k) ==
                CASE k = 1 -> ExactCip(mt.d, l)
                  [] k = 2 -> GroupeGeneriqueBdpm(mt.d, l)
                  [] k = 3 -> FuzzyMolecule(mt.d, l)
                  [] k = 4 -> FuzzyCommercial(mt.d, l)
        IN  /\ \A m \in ReturnedFor(l) :
                  \A j \in 1..(m.tier - 1) : TierCandidates(j) = << >>
            /\ ( /\ mt.op = "find_matches_for_product"
                 /\ mt.target_lab_id \in {Null, l}
                 /\ \E k \in 1..4 : TierCandidates(k) # << >> )
                    => ReturnedFor(l) # {}

\* the cascade of C16 for the calls made with one target supplier
\* (find_matches_for_product with target_lab_id, process_sales_matching)
C16_CascadeOneTarget ==
    \A l \in MatchLabos :
        LET TierCandidates(k) ==
                CASE k = 1 -> ExactCip(mt.d, l)
                  [] k = 2 -> GroupeGeneriqueBdpm(mt.d, l)
                  [] k = 3 -> FuzzyMolecule(mt.d, l)
                  [] k = 4 -> FuzzyCommercial(mt.d, l)
        IN  /\ \A m \in ReturnedFor(l) :
                  \A j \in 1..(m.tier - 1) : TierCandidates(j) = << >>
            /\ ( /\ mt.op = "find_matches_for_product"
                 /\ mt.target_lab_id = l
                 /\ \E k \in 1..4 : TierCandidates(k) # << >> )
                    => ReturnedFor(l) # {}

\* C17: when the code of the sale line is the code of an active product of
\* the supplier, the result for the (line, supplier) pair is that product with
\* score 100 and type exact_cip, whatever group or fuzzy candidates exist
\* (for match_ventes_to_catalogues: with a min_score of at most 100).
C17_ExactCodeWins ==
    \A l \in MatchLabos :
        \A i \in DOMAIN mt.d.produits :
            LET p == mt.d.produits[i]
            IN  ( /\ mt.op # "pending"
                  /\ mt.op = "find_matches_for_product" => mt.target_lab_id \in {Null, l}
                  /\ mt.op = "match_ventes_to_catalogues" => mt.min_score <= 10000
                  /\ p.actif
                  /\ p.laboratoire_id = l
                  /\ mt.d.vente.code_cip_achete # Null
                  /\ p.code_cip = mt.d.vente.code_cip_achete )
                    => ReturnedFor(l) = {MatchResult(p, 10000, "exact_cip", 1)}

\* process_sales_matching stored the exact-code product of supplier 1 although
\* the supplier also has a product of the line's group with the line's
\* packaging and a perfect fuzzy score
C17_Witness ==
    /\ mt.op = "process_sales_matching"
    /\ mt.out[1].match_type = "exact_cip"
    /\ mt.out[1].score = 10000
    /\ mt.d.vente.groupe_generique_id = 1
    /\ mt.d.vente.conditionnement = 1
    /\ \E i \in DOMAIN mt.d.produits :
          LET p == mt.d.produits[i]
          IN  /\ p.actif /\ p.laboratoire_id = 1 /\ p.id # mt.out[1].produit_id
              /\ p.groupe_generique_id = 1 /\ p.conditionnement = 1
              /\ p.fuzzy.component_score = 100

\* C18: a generic-group (tier 2) match has score 100 exactly when the
\* packaging of the chosen product is known and equals the packaging of the
\* sale line, and score 95 otherwise; when the supplier has a product of the
\* group with the packaging of the line, the chosen product is such a product.
C18_GroupScoreByPackaging ==
    \A l \in MatchLabos :
        \A m \in ReturnedFor(l) :
            LET SamePackaging(p) == /\ p.conditionnement # Null
                                    /\ mt.d.vente.conditionnement # Null
                                    /\ p.conditionnement = mt.d.vente.conditionnement
                chosen == mt.d.produits[m.produit_id]
            IN  m.tier = 2 =>
                    /\ m.score = IF SamePackaging(chosen) THEN 10000 ELSE 9500
                    /\ (\E i \in DOMAIN mt.d.produits :
                            LET p == mt.d.produits[i]
                            IN  /\ p.actif /\ p.laboratoire_id = l
                                /\ p.groupe_generique_id = chosen.groupe_generique_id
                                /\ SamePackaging(p))
                          => SamePackaging(chosen)

\* C19: every candidate of the fuzzy component tier has a score of at most
\* 85, and every candidate of the fuzzy full-name fallback a score of at most
\* 70.
C19_FuzzyCaps ==
    \A l \in MatchLabos :
        \A m \in ReturnedFor(l) :
            /\ m.tier = 3 => m.score <= 8500
            /\ m.tier = 4 => m.score <= 7000

\* C20: no match stored by process_sales_matching for a request with
\* min_score m, and no match kept by match_ventes_to_catalogues(min_score = m),
\* has a score below m, whichever tier produced it.
C20_MinScoreFilter ==
    mt.op \in {"process_sales_matching", "match_ventes_to_catalogues"} =>
        \A l \in MatchLabos :
            \A m \in ReturnedFor(l) : m.score >= mt.min_score

\* ------------------------------------------------------------------------
\* Properties of the requests that name suppliers
\* ------------------------------------------------------------------------

\* C21: a request that names several suppliers of which one is unknown
\* reports a not-found condition for that supplier only and still produces
\* the results of the known suppliers: it is not rejected as a whole and the
\* unknown id is not silently ignored.
C21_PartialFailure ==
    ( /\ api.op # "pending"
      /\ Cardinality(Range(api.labo_ids)) = 2
      /\ Cardinality(Range(api.labo_ids) \cap api.known) = 1 )
        => /\ api.response.status = 200
           /\ api.response.not_found = Range(api.labo_ids) \ api.known
           /\ api.response.results = Range(api.labo_ids) \cap api.known

\* ------------------------------------------------------------------------
\* Properties of the cache of the derived indexes
\* ------------------------------------------------------------------------

\* C22: once clear_cache() has followed the last change of the catalogue or
\* of the reference table, every lookup through a derived index returns what
\* the store holds, and no entry loaded before the invalidation is left in
\* the cache.
C22_FreshAfterClear ==
    ~api.changed =>
        /\ \A k \in DOMAIN api._cache : api._cache[k] = Rebuild(api.store, k)
        /\ api.op = "lookup" => api.value = Rebuild(api.store, api.key)

\* a lookup after a change and clear_cache returned the new content, which
\* differs from the entry loaded before the change, all four indexes having
\* been loaded then
C22_Witness ==
    /\ api.op = "lookup"
    /\ ~api.changed
    /\ DOMAIN api.before = CacheKeys
    /\ api.before[api.key] # api.value
    /\ api.value = Rebuild(api.store, api.key)

\* ------------------------------------------------------------------------
\* Properties of batch_match_products
\* ------------------------------------------------------------------------

\* C23: for non-empty inputs batch_match_products returns one result per
\* sale line, in input order; result i carries the code of a reference entry
\* whose score is maximal in row i when that maximum is >= score_threshold,
\* and otherwise has matched_cip13 None and match_type 'no_match'; when
\* either input list is empty it returns the empty list.
C23_BestPerRow ==
    api.op = "batch_match_products" =>
        IF api.ventes = << >> \/ api.bdpm = << >>
        THEN api.out = << >>
        ELSE /\ Len(api.out) = Len(api.ventes)
             /\ \A i \in 1..Len(api.ventes) :
                   LET row == ScoreTable[api.ventes[i].designation]
                       best == MaxOf({row[api.bdpm[j]] : j \in 1..Len(api.bdpm)})
                       r == api.out[i]
                   IN  /\ r.source_cip13 = api.ventes[i].cip13
                       /\ r.match_score = best
                       /\ IF best >= api.score_threshold
                          THEN /\ r.match_type = "fuzzy"
                               /\ \E j \in 1..Len(api.bdpm) :
                                     /\ r.matched_cip13 = api.bdpm[j]
                                     /\ row[api.bdpm[j]] = best
                          ELSE /\ r.match_type = "no_match"
                               /\ r.matched_cip13 = None

\* two sale lines in, two results out in that order: the first matched at a
\* maximum that is not the first entry of the reference list, the second
\* unmatched
C23_Witness ==
    /\ api.op = "batch_match_products"
    /\ Len(api.out) = 2
    /\ api.bdpm = <<"c2", "c3", "c1">>
    /\ api.out[1].matched_cip13 = "c3"
    /\ api.out[1].match_score = 90
    /\ api.score_threshold = 90
    /\ api.out[2].match_type = "no_match"
    /\ api.out[2].source_cip13 = "c1"

\* ------------------------------------------------------------------------
\* Properties of the cache of the MatchingService
\* ------------------------------------------------------------------------

C25_PopulateGroups ==
    [][PopulateFromBdpmCall =>
              /\ \A i, j \in DOMAIN bdpm :
                    (bdpm[i].gen # 0 /\ bdpm[i].gen = bdpm[j].gen) =>
                        /\ bdpm[i].cip13 \in DOMAIN mem'
                        /\ bdpm[j].cip13 \in DOMAIN mem'
                        /\ mem'[bdpm[i].cip13].g = mem'[bdpm[j].cip13].g
              /\ \A again \in RowOrders(GenIds(bdpm)) :
                    LET m2 == PopulateFromBdpm(mem', bdpm, again)
                    IN  /\ DOMAIN m2 = DOMAIN mem'
                        /\ GroupIds(m2) = GroupIds(mem')]_vars

\* C26: when register_match(a, b) finds a and b in two different groups of
\* different sizes, the group that survives is the one with more members and
\* every member of the other group is rewritten to it.
C26_SmallerIntoLarger ==
    [][\A a, b \in Codes :
          LET r == RegisterMatchResult(mem, a, b)
              ga == GetGroupeForCip(mem, a)
              gb == GetGroupeForCip(mem, b)
              na == Cardinality({c \in DOMAIN mem : mem[c].g = ga})
              nb == Cardinality({c \in DOMAIN mem : mem[c].g = gb})
              larger == IF na > nb THEN ga ELSE gb
          IN  ( /\ mem' = r.mem
                /\ hist' = Remember(hist, [a |-> a, b |-> b, ret |-> r.ret])
                /\ ga # NoGroup /\ gb # NoGroup /\ ga # gb /\ na # nb ) =>
                  /\ r.ret = larger
                  /\ \A c \in DOMAIN mem :
                        mem[c].g \in {ga, gb} => mem'[c].g = larger]_vars

\* ------------------------------------------------------------------------
\* Properties of concurrent sessions on the matching memory
\* ------------------------------------------------------------------------

AllReturned == \A s \in DOMAIN rm : rm[s].pc \in {"idle", "done", "failed"}

\* x and y were registered as a match or share a generic group of the
\* reference table
Linked(x, y) ==
    \/ x = y
    \/ {x, y} \in api.links
    \/ \E i, j \in DOMAIN bdpm :
          /\ bdpm[i].cip13 = x /\ bdpm[j].cip13 = y
          /\ bdpm[i].gen # 0 /\ bdpm[i].gen = bdpm[j].gen

\* a chain of links from x to y (three codes: at most one code in between)
Connected(x, y) == \E z \in Codes : Linked(x, z) /\ Linked(z, y)

\* C27: whatever the interleaving of register_match, populate_from_bdpm and
\* _store_match calls, once they have returned two codes are in the same
\* equivalence group only if a chain of registered matches or shared generic
\* groups connects them.
C27_GroupsOnlyFromLinks ==
    AllReturned =>
        \A x, y \in DOMAIN mem : mem[x].g = mem[y].g => Connected(x, y)

ThreeGroups(m) ==
    /\ DOMAIN m = Codes
    /\ Cardinality(GroupIds(m)) = 3

\* C28: register_match(a, b) and register_match(b, c), both entered on a
\* store where a, b, c are in three different groups, leave a, b and c in one
\* group once both have completed, whatever the interleaving.  (Only a
\* register_match reads two groups, ga and gb.)
C28_ConcurrentMergesClose ==
    ( /\ rm["s1"].pc = "done" /\ rm["s2"].pc = "done"
      /\ \A s \in DOMAIN rm : rm[s].pre # << >> /\ ThreeGroups(rm[s].pre)
      /\ \A s \in DOMAIN rm : rm[s].ga # NoGroup /\ rm[s].gb # NoGroup
      /\ rm["s1"].b = rm["s2"].a
      /\ Cardinality({rm["s1"].a, rm["s1"].b, rm["s2"].b}) = 3 ) =>
        Cardinality(GroupIds(mem)) = 1

\* ------------------------------------------------------------------------
\* Properties of the preview
\* ------------------------------------------------------------------------

\* C29: for one request and one state of the stored data, the potential and
\* the minimum objective preview_optimization reports for a supplier are the
\* potentiel_ht and objectif_minimum optimize_multi_labo reports for it.
C29_PreviewAgrees ==
    (api.status = 200 /\ res.status # "PENDING" /\ res.success) =>
        \A l \in Labos :
            /\ api.labos[l].potentiel_ht = res.repartition[l].potentiel_ht
            /\ api.labos[l].objectif_minimum_calcule = res.repartition[l].objectif_minimum

\* the same, for requests whose suppliers have no stored rule with remontee 0
\* on a matched product
C29_PreviewAgreesWithoutRules ==
    (api.status = 200 /\ res.status # "PENDING" /\ res.success
       /\ \A x \in req.regles : x.remontee_pct # 0) =>
        \A l \in Labos :
            /\ api.labos[l].potentiel_ht = res.repartition[l].potentiel_ht
            /\ api.labos[l].objectif_minimum_calcule = res.repartition[l].objectif_minimum

\* ------------------------------------------------------------------------
\* Properties of the pages of pending validations
\* ------------------------------------------------------------------------

\* C30: following next_cursor from the first page until it is null, with the
\* table unchanged, returns every pending validation exactly once.
C30_EveryPendingOnce ==
    api.op = "end" =>
        /\ {api.seen[i] : i \in DOMAIN api.seen} = {i \in DOMAIN api.rows : api.rows[i].pending}
        /\ \A i, j \in DOMAIN api.seen : i # j => api.seen[i] # api.seen[j]

\* no item is returned twice
C30_NoRepeat ==
    \A i, j \in DOMAIN api.seen : i # j => api.seen[i] # api.seen[j]

====
